---- MODULE Spec2Model ----
(***************************************************************************)
(* Model of the Bermoid dispatcher (src/core/application.py): the HTTP     *)
(* connection flow (Bermoid.__call__, _http, handle_request,               *)
(* _process_exception, _process_response, _error_validator, the request   *)
(* stage hooks, Response.__call__), the lifespan flow (_lifespan,          *)
(* _startup_handlers, _shutdown_handlers), the socket flow, the global     *)
(* registry of src/core/routing.py with the threads that call into it, the *)
(* pattern converter and its cache (src/core/converter.py), the Response   *)
(* object (src/wrappers/response.py), the ASGI middleware stack            *)
(* (src/core/asgi/middleware.py) and the in-memory session stage           *)
(* (src/core/backend/sessions/memorysession.py).                           *)
(***************************************************************************)
EXTENDS Integers, Sequences, FiniteSets, TLC

VARIABLES
    routes,             \* Bermoid.routes: routes taken from included schematics
    registry_routes,    \* core.routing._routes: the global registry's Route objects
    debug,              \* Bermoid.debug (settings.DEBUG)
    exception_handlers, \* Bermoid.exception_handlers: TRUE when settings.EXCEPTION_HANDLER is set
    pc,                 \* position of the HTTP connection's coroutine
    req,                \* scope of the connection in progress: path and method
    matched,            \* index in routes of the route whose body is running, 0 if none
    resp,               \* handle_request's local `response`
    exc,                \* the exception being handled, NoneValue if none
    dispatch,           \* what the route scan of this connection decided
    invoked,            \* route handlers awaited on this connection, in order
    sent,               \* events this connection handed to the transport's send
    propagated,         \* TRUE when __call__ let an exception reach the transport
    lifespan_events,    \* settings.LIFESPAN_EVENTS: the event type of each entry, in order
    startup_handlers,   \* Bermoid.startup_handlers
    shutdown_handlers,  \* Bermoid.shutdown_handlers
    lpc,                \* position of the lifespan connection's coroutine
    started,            \* _lifespan's local `started`
    hook,               \* index of the lifespan handler the for loop is at
    lifelog,            \* what the lifespan connection did, in order
    http_after_failed,  \* route handlers awaited after "lifespan.startup.failed" was sent
    schematic_middlewares, \* Schematic.middlewares of each schematic
    middlewares,        \* Bermoid._middlewares
    executed,           \* middleware awaited by apply_middlewares on this connection, in order
    websockets,         \* Bermoid.websockets: socket routes taken from included schematics
    registry_websockets,\* core.routing._websockets: the global registry's WebsocketRoute objects
    wpc,                \* position of the socket connection's coroutine
    ws,                 \* the WebSocket of the connection in progress: path and states
    ws_exc,             \* the exception _websocket_handler is handling
    ws_invoked,         \* socket handlers awaited on this connection, in order
    ws_sent,            \* events this socket connection handed to the transport's send
    ws_propagated,      \* TRUE when _websocket_handler let an exception reach the transport
    handlers_set,       \* core.routing._handlers_set
    reg_result,         \* what the last registration call on the global registry did
    registry_links,     \* core.routing._links: the global registry's Link objects
    request_stage_handlers, \* Bermoid.request_stage_handlers: the hooks of each stage
    handler_params,     \* inspect.signature(handler).parameters of each route handler
    returned,           \* what the route handler of this connection returned
    trace,              \* the stages this connection went through, in order
    threads,            \* the threads calling into core.routing: position and locals
    lock,               \* core.routing._lock: the thread that holds it, 0 if free
    compiled_cache,     \* Converter._compiled_cache: one dict for all converters
    custom_converters,  \* Converter._custom_converters of each converter
    compiled,           \* what the last call of _compile_pattern was given and returned
    response_obj,       \* a Response object: content, compress and headers
    response_sent,      \* the events Response.__call__ handed to send, in order
    producer_calls,     \* how many times the streaming producer of the response was called
    asgi_specs,         \* the MIDDLEWARE entries of the settings, as load_specs normalises them
    asgi_app,           \* what build_middleware_stack gave: the layers around the application
    asgi_seen,          \* the layers a connection passed through, in order
    sessions,           \* InMemorySessionBeforeStage.sessions: session id -> session
    now,                \* the clock, in minutes
    cleanup_counter,    \* InMemorySessionBeforeStage._cleanup_counter, modulo the interval
    generated,          \* how many session ids _generate_session_id has given
    attached            \* the session the stage attached to the last request

vars == <<routes, registry_routes, debug, exception_handlers, pc, req, matched, resp,
          exc, dispatch, invoked, sent, propagated, lifespan_events, startup_handlers,
          shutdown_handlers, lpc, started, hook, lifelog, http_after_failed,
          schematic_middlewares, middlewares, executed, websockets, registry_websockets,
          wpc, ws, ws_exc, ws_invoked, ws_sent, ws_propagated, handlers_set, reg_result,
          registry_links, request_stage_handlers, handler_params, returned, trace, threads, lock,
          compiled_cache, custom_converters, compiled, response_obj, response_sent,
          producer_calls, asgi_specs, asgi_app, asgi_seen, sessions, now, cleanup_counter,
          generated, attached>>

config_vars == <<routes, registry_routes, debug, exception_handlers>>
http_vars == <<pc, req, matched, resp, exc, dispatch, invoked, sent, propagated>>
mw_vars == <<schematic_middlewares, middlewares>>
ws_conf_vars == <<websockets, registry_websockets>>
ws_vars == <<wpc, ws, ws_exc, ws_invoked, ws_sent, ws_propagated>>
reg_vars == <<handlers_set, reg_result, registry_links>>
stage_vars == <<request_stage_handlers, handler_params>>
thread_vars == <<threads, lock>>
converter_vars == <<compiled_cache, custom_converters, compiled>>
response_vars == <<response_obj, response_sent, producer_calls>>
asgi_vars == <<asgi_specs, asgi_app, asgi_seen>>
session_vars == <<sessions, now, cleanup_counter, generated, attached>>
ext_vars == <<converter_vars, response_vars, asgi_vars, session_vars>>
life_vars == <<lifespan_events, startup_handlers, shutdown_handlers, lpc, started, hook, lifelog>>

----------------------------------------------------------------------------
(* Bounds of the model *)

MaxRoutes == 2
MaxRegistry == 2
MaxHooks == 3
MaxMiddlewares == 2
MaxIncludes == 2
MaxSockets == 2
MaxStageHandlers == 2
MaxThreads == 2
MaxCache == 2
MaxASGI == 3
MaxSessions == 2
MaxTime == 60

None == "None"

----------------------------------------------------------------------------
(* Paths and patterns.  A request path is a sequence of segments, a segment *)
(* a sequence of characters; a compiled pattern is a sequence of elements,  *)
(* each a literal segment or a typed placeholder.                           *)

Digit == {"0", "1", "2", "3", "4", "5", "7"}
Seg_a == <<"a">>
Seg_7 == <<"7">>
Paths == {<<Seg_a>>, <<Seg_7>>, <<Seg_a, Seg_7>>}

Lit(s) == [kind |-> "lit", arg |-> s]
Param(t) == [kind |-> "param", arg |-> <<t>>]

\* "/a" and "/{x}"
Templates == {<<Lit(Seg_a)>>, <<Param("str")>>}
RegistryTemplates == {<<Lit(Seg_a)>>}

RouteMethods == {{"GET"}, {"POST"}}
RequestMethods == {"get", "PUT"}

\* str.upper on the method names in use
upper(m) == IF m = "get" THEN "GET" ELSE IF m = "brew" THEN "BREW" ELSE m

\* str.isdigit()
isdigit(seg) == Len(seg) >= 1 /\ \A i \in 1..Len(seg) : seg[i] \in Digit

\* the regular expression [0-9]*\.?[0-9]+ of the float converter, which is
\* also what float(value) accepts of the strings in use
is_float(seg) ==
    /\ Len(seg) >= 1
    /\ seg[Len(seg)] \in Digit
    /\ \A i \in 1..Len(seg) : seg[i] \in Digit \cup {"."}
    /\ Cardinality({i \in 1..Len(seg) : seg[i] = "."}) <= 1

\* Converter._default_converters: the regular expression of a placeholder type;
\* a placeholder without a type has the expression of str
converter_match(type, seg) ==
    IF type = "int" THEN isdigit(seg)
    ELSE IF type = "float" THEN is_float(seg)
    ELSE Len(seg) >= 1 /\ \A i \in 1..Len(seg) : seg[i] # "/"

element_match(el, seg) ==
    IF el.kind = "lit" THEN el.arg = seg ELSE converter_match(el.arg[1], seg)

\* path_regex.match(path) for a pattern compiled as ^...$
regex_match(path_regex, path) ==
    /\ Len(path_regex) = Len(path)
    /\ \A i \in 1..Len(path) : element_match(path_regex[i], path[i])

\* match.groupdict(): the text each placeholder captured, in pattern order
RECURSIVE groupdict(_, _, _)
groupdict(path_regex, path, i) ==
    IF i > Len(path_regex) THEN <<>>
    ELSE IF path_regex[i].kind = "param"
         THEN <<path[i]>> \o groupdict(path_regex, path, i + 1)
         ELSE groupdict(path_regex, path, i + 1)

\* a path parameter as the handler gets it: an int, a float or text
IntValue(n) == [type |-> "int", int |-> n, text |-> <<>>]
FloatValue(t) == [type |-> "float", int |-> 0, text |-> t]
TextValue(t) == [type |-> "str", int |-> 0, text |-> t]

DigitValue(c) ==
    IF c = "0" THEN 0 ELSE IF c = "1" THEN 1 ELSE IF c = "2" THEN 2
    ELSE IF c = "3" THEN 3 ELSE IF c = "4" THEN 4 ELSE IF c = "5" THEN 5 ELSE 7

\* int(value) for a string of digits
RECURSIVE int(_)
int(seg) ==
    IF seg = <<>> THEN 0
    ELSE 10 * int(SubSeq(seg, 1, Len(seg) - 1)) + DigitValue(seg[Len(seg)])

\* Bermoid._convert_value(value) for a captured string
convert_value(value) ==
    IF isdigit(value) THEN IntValue(int(value))
    ELSE IF is_float(value) THEN FloatValue(value)
    ELSE TextValue(value)

\* handle_request: processed_path_params
processed_path_params(path_regex, path) ==
    LET path_params == groupdict(path_regex, path, 1)
    IN  [k \in 1..Len(path_params) |-> convert_value(path_params[k])]

\* a route of Bermoid.routes; each registered route has a handler of its own
Route(path_regex, methods, handler) ==
    [path_regex |-> path_regex, methods |-> methods, handler |-> handler]

----------------------------------------------------------------------------
(* Values, responses and exceptions *)

\* a value a callable hands back; kind "raise" stands for the callable raising
\* an exception of type `content`.  text is the string the value carries (the
\* body of a response, the detail or message of an exception), items the
\* elements of a tuple
Value(kind, content, status_code) ==
    [kind |-> kind, status_code |-> status_code, content |-> content, allow |-> {},
     content_type |-> None, text |-> <<>>, items |-> <<>>]
\* Response.__init__: content_type defaults to "text/plain"
Response(content, status_code) ==
    [Value("Response", content, status_code) EXCEPT !.content_type = "text/plain"]
NoneValue == Value("NoneType", None, 0)
StrValue == Value("str", "str", 0)
Raise(type) == Value("raise", type, 0)

\* the strings in use, as sequences of characters: "hi", "<p/>", "<p>", ""
Texts == {<<"h", "i">>, <<"<", "p", "/", ">">>, <<"<", "p", ">">>, <<>>}

\* str.startswith for a one-character prefix
startswith(text, prefix) == Len(text) >= 1 /\ text[1] = prefix

\* ET.fromstring(text) returns (TRUE) or raises ParseError (FALSE); of the
\* strings in use it parses a lone self-closing element and nothing else
fromstring(text) ==
    /\ Len(text) >= 4
    /\ text[1] = "<"
    /\ text[Len(text) - 1] = "/"
    /\ text[Len(text)] = ">"
    /\ \A i \in 2..(Len(text) - 2) : text[i] \notin {"<", ">", "/"}

\* values a handler may return besides a Response
Str(text) == [Value("str", "str", 0) EXCEPT !.text = text]
\* a dict or a list; content "obj" when json.dumps cannot serialize it
Dict(content) == Value("dict", content, 0)
List(content) == Value("list", content, 0)
IntObject(n) == Value("int", "int", n)
Tuple(elements) == [Value("tuple", "tuple", 0) EXCEPT !.items = elements]

\* handler.__name__ of the handler of a route
handler_name(handler) ==
    <<"h", IF handler = 1 THEN "1" ELSE IF handler = 2 THEN "2" ELSE "3">>

\* _process_response, a str: Response(text, content_type=..., status_code=...)
text_response(text, status_code) ==
    [Response("str", status_code) EXCEPT
        !.text = text,
        !.content_type = IF startswith(text, "<")
                         THEN IF fromstring(text) THEN "application/xml" ELSE "text/html"
                         ELSE "text/plain"]

\* _process_response, a dict or a list: Response(content=json.dumps(...),
\* content_type='application/json'); json.dumps raises a TypeError of its own
json_response(value, status_code) ==
    IF value.content = "obj" THEN Raise("TypeError")
    ELSE [Response("str", status_code) EXCEPT !.content_type = "application/json"]

\* _process_response(response, caller_function): the value returned, or the
\* TypeError raised, whose message names the caller function
process_response(response, caller_function) ==
    IF response.kind = "str" THEN text_response(response.text, 200)
    ELSE IF response.kind = "dict" THEN json_response(response, 200)
    ELSE IF /\ response.kind = "tuple"
            /\ Len(response.items) = 2
            /\ response.items[2].kind = "int"
    THEN IF response.items[1].kind = "str"
         THEN text_response(response.items[1].text, response.items[2].status_code)
         ELSE IF response.items[1].kind \in {"dict", "list"}
         THEN json_response(response.items[1], response.items[2].status_code)
         ELSE response
    ELSE IF response.kind = "list" THEN json_response(response, 200)
    ELSE IF response.kind # "Response"
    THEN [Raise("TypeError") EXCEPT !.text = caller_function]
    ELSE response

\* HTTPStatus(status_code).phrase for the codes in use
phrase(status_code) ==
    IF status_code = 404 THEN <<"Not Found">>
    ELSE IF status_code = 405 THEN <<"Method Not Allowed">>
    ELSE IF status_code = 418 THEN <<"I'm a Teapot">>
    ELSE IF status_code = 503 THEN <<"Service Unavailable">>
    ELSE <<"Internal Server Error">>

\* HTTPException.__init__(status_code, detail): a status outside 100..599 becomes
\* 500, an empty detail the phrase of the status
HTTPException(status_code, detail) ==
    LET code == IF status_code \in 100..599 THEN status_code ELSE 500
    IN  [Raise("HTTPException") EXCEPT
            !.status_code = code,
            !.text = IF detail = <<>> THEN phrase(code) ELSE detail]

\* NotFound.__init__(detail)
NotFound(detail) ==
    [HTTPException(404, IF detail = <<>> THEN <<"Not Found">> ELSE detail) EXCEPT
        !.content = "NotFound"]

\* an exception of another type raised with a message
RaiseWith(type, message) == [Raise(type) EXCEPT !.text = message]

\* core.http_exceptions.exception_dict: status code -> exception class
exception_dict_codes == {404, 405, 500}
reversed_exception_dict(type) ==
    IF type = "NotFound" THEN 404
    ELSE IF type = "MethodNotAllowed" THEN 405
    ELSE IF type = "InternalServerError" THEN 500 ELSE 0

\* Bermoid.error_handlers: no operation of the dispatcher adds to it
error_handlers == {}

\* _error_validator(error_code, *args): without a custom handler the arguments
\* (the request and, for 405, the allowed methods) are not passed on, and
\* exception_dict[error_code]() is built with no argument: it carries the
\* default detail of its class
error_validator(error_code, allowed_methods) ==
    IF error_code \in error_handlers
    THEN [Response("str", error_code) EXCEPT !.allow = allowed_methods]
    ELSE IF error_code \in exception_dict_codes
         THEN [Response("str", error_code) EXCEPT !.text = phrase(error_code)]
         ELSE Raise("TypeError")

\* the branch of _process_exception that answers for e
process_exception_branch(e) ==
    IF reversed_exception_dict(e.content) # 0 THEN "error_validator"
    ELSE IF debug THEN "handle_exception"
    ELSE IF exception_handlers THEN "exception_handlers"
    ELSE "fallback"

\* a step of a connection, as recorded in trace
Stage(stage, id, raised) == [stage |-> stage, id |-> id, raised |-> raised]

\* the step of _process_exception as recorded in trace: the branch, and whether
\* handle_exception or the custom handler raised in it
mapper_stage(e, handled) ==
    Stage(process_exception_branch(e), 0,
          /\ process_exception_branch(e) \in {"handle_exception", "exception_handlers"}
          /\ handled.kind = "raise")

\* the Response built when handle_exception or the custom handler raised
\* inner_error: its text is formatted with the message of inner_error
inner_error_response(prefix, inner_error) ==
    [Response("str", 500) EXCEPT !.text = <<prefix>> \o inner_error.text]

\* _process_exception(e, request).  handled is what handle_exception (debug) or
\* the custom handler did: the value it returned, or a Raise
process_exception(e, handled) ==
    IF reversed_exception_dict(e.content) # 0
    THEN error_validator(reversed_exception_dict(e.content), {})
    ELSE IF debug
    THEN IF handled.kind = "raise"
         THEN inner_error_response("Internal Error in exception handler: ", handled)
         ELSE handled
    ELSE IF exception_handlers
    THEN IF handled.kind = "raise"
         THEN inner_error_response("Internal Error in custom handler: ", handled)
         ELSE handled
    ELSE error_validator(500, {})

\* what handle_exception or a custom exception handler may do with (e, request);
\* a custom handler may raise e again
HandledSet ==
    IF debug THEN {Raise("Exception"), Response("str", 500)}
    ELSE IF exception_handlers
         THEN {Raise("Exception"), NoneValue, Response("str", 500), Response("obj", 500)}
              \cup (IF exc.kind = "raise" THEN {exc} ELSE {})
         ELSE {NoneValue}

----------------------------------------------------------------------------
(* Response.__call__(scope, receive, send).  fail is the number of the send  *)
(* call at which the transport raises, 0 if it never does.                   *)

StartEvent(r) == [type |-> "http.response.start", status |-> r.status_code]
BodyEvent == [type |-> "http.response.body", status |-> 0]

response_call(r, fail) ==
    IF r.kind # "Response"
    THEN [events |-> <<>>, raised |-> TRUE]          \* `await response(...)`: not callable
    ELSE IF fail = 1
    THEN [events |-> <<StartEvent(r)>>, raised |-> TRUE]
    ELSE IF r.content = None
    THEN [events |-> <<StartEvent(r)>>, raised |-> FALSE]
    ELSE IF r.content = "obj"
    THEN [events |-> <<StartEvent(r)>>, raised |-> TRUE]   \* json.dumps(content) fails
    ELSE [events |-> <<StartEvent(r), BodyEvent>>, raised |-> (fail = 2)]

SendFailures == {0, 1, 2}

----------------------------------------------------------------------------
(* The Response object: src/wrappers/response.py.  A text is a sequence of   *)
(* characters, bytes are counted; the producer of a streaming response       *)
(* yields the same chunks of bytes each time it is called.                   *)

\* the content of a response: None, a str, bytes, a dict (items as text) or a
\* callable with the chunks it yields (each a number of bytes)
Content(kind, text, chunks) == [kind |-> kind, text |-> text, chunks |-> chunks]

\* the Set-Cookie entry of self.headers; None when there is none
Cookie(key, value) == [key |-> key, value |-> value]

\* Response(content, status_code=200, compress=compress)
ResponseObject(content, compress) ==
    [content |-> content, status_code |-> 200, compress |-> compress,
     streaming |-> (content.kind = "callable"), set_cookie |-> Cookie(None, None)]

\* len(text.encode("utf-8")): one byte for "a", two for "é"
RECURSIVE encode(_)
encode(text) ==
    IF text = <<>> THEN 0 ELSE (IF Head(text) = "é" THEN 2 ELSE 1) + encode(Tail(text))

\* len(json.dumps(content).encode()) for the dicts in use: {} and {"a": 1}
json_dumps(content) == IF content.text = <<>> THEN 2 ELSE 8

\* len(gzip.compress(body)) for the short bodies in use: the ten bytes of the
\* header, the eight of the trailer and two of deflate framing around the body
gzip_compress(body) == body + 20

RECURSIVE sum(_)
sum(sizes) == IF sizes = <<>> THEN 0 ELSE Head(sizes) + sum(Tail(sizes))

\* `if self.content:`
truthy(content) ==
    content.kind = "callable" \/ (content.kind # "NoneType" /\ content.text # <<>>)

\* __call__: content_length; a callable is measured by get_stream_content_length
content_length(content) ==
    IF ~truthy(content) THEN 0
    ELSE IF content.kind = "str" THEN encode(content.text)
    ELSE IF content.kind = "bytes" THEN Len(content.text)
    ELSE IF content.kind = "callable" THEN sum(content.chunks)
    ELSE 0

\* the events handed to send
start_event(r) ==
    [type |-> "http.response.start", status |-> r.status_code,
     content_length |-> content_length(r.content), set_cookie |-> r.set_cookie,
     body |-> 0, more_body |-> FALSE]
body_event(body, more_body) ==
    [type |-> "http.response.body", status |-> 0, content_length |-> 0,
     set_cookie |-> Cookie(None, None), body |-> body, more_body |-> more_body]

\* _send_standard_response and _send_standard_response_compressed
send_standard_response(r) ==
    LET body == IF r.content.kind = "str" THEN encode(r.content.text)
                ELSE IF r.content.kind = "bytes" THEN Len(r.content.text)
                ELSE json_dumps(r.content)
    IN  IF r.content.kind = "NoneType" THEN <<>>
        ELSE <<body_event(IF r.compress THEN gzip_compress(body) ELSE body, FALSE)>>

\* _send_streaming_response and _send_streaming_response_compressed: one event
\* for each chunk; compressed, the first piece flushed begins with the header
\* and each piece ends with the marker of a flush
send_streaming_response(r) ==
    [i \in 1..Len(r.content.chunks) |->
        body_event(IF r.compress
                   THEN r.content.chunks[i] + 5 + (IF i = 1 THEN 10 ELSE 0)
                   ELSE r.content.chunks[i], TRUE)]

\* what moves when a Response object is used
ResponseFrame ==
    /\ UNCHANGED <<config_vars, http_vars, life_vars, http_after_failed>>
    /\ UNCHANGED <<mw_vars, executed, ws_conf_vars, ws_vars, reg_vars>>
    /\ UNCHANGED <<stage_vars, thread_vars, converter_vars, returned, trace>>
    /\ UNCHANGED <<asgi_vars, session_vars>>

\* Response.__call__(scope, receive, send)
ResponseCall ==
    /\ response_sent' =
          <<start_event(response_obj)>>
          \o (IF response_obj.streaming THEN send_streaming_response(response_obj)
              ELSE send_standard_response(response_obj))
    /\ producer_calls' = IF response_obj.streaming THEN 2 ELSE 0
    /\ UNCHANGED response_obj
    /\ ResponseFrame

\* Response.set_cookie(key, value)
set_cookie(key, value) ==
    /\ response_obj' = [response_obj EXCEPT !.set_cookie = Cookie(key, value)]
    /\ UNCHANGED <<response_sent, producer_calls>>
    /\ ResponseFrame

\* Response.delete_cookie(key): a cookie of that name with no value, expired
delete_cookie(key) ==
    /\ response_obj' = [response_obj EXCEPT !.set_cookie = Cookie(key, "")]
    /\ UNCHANGED <<response_sent, producer_calls>>
    /\ ResponseFrame

\* no response is being built
NoResponse ==
    /\ response_obj = ResponseObject(Content("NoneType", <<>>, <<>>), FALSE)
    /\ response_sent = <<>>
    /\ producer_calls = 0

----------------------------------------------------------------------------
(* The pattern converter: src/core/converter.py.  A path, a prefix and a     *)
(* compiled pattern are texts, written as sequences of chunks; the chunks    *)
(* "{x}", "{x:int}" and "{x:t}" are placeholders.                            *)

Converters == {1, 2}

\* the placeholder type of a chunk as Converter._param_pattern reads it, None
\* for a chunk that is no placeholder
placeholder_type(chunk) ==
    IF chunk = "{x:t}" THEN "t" ELSE IF chunk = "{x:int}" THEN "int"
    ELSE IF chunk = "{x}" THEN "" ELSE None

NoConverter == [regex |-> None, cast |-> None]

\* Converter._get_converter(type_name): a custom type first, then a default
\* type, then the type name itself taken as a regular expression
get_converter(custom, type_name) ==
    IF type_name = "" THEN [regex |-> "[^/]+", cast |-> "str"]
    ELSE IF custom[type_name] # NoConverter THEN custom[type_name]
    ELSE IF type_name = "int" THEN [regex |-> "\\d+", cast |-> "int"]
    ELSE [regex |-> type_name, cast |-> "str"]

\* Converter._normalize_path
normalize_path(path, strict_slashes) ==
    IF ~strict_slashes /\ path[Len(path)] # "/" THEN path \o <<"/?">> ELSE path

\* self._param_pattern.sub(lambda m: self._replace_param(m, prefix, param_casts), ...)
RECURSIVE replace_param(_, _, _)
replace_param(custom, path, prefix) ==
    IF path = <<>> THEN [pattern |-> <<>>, param_casts |-> <<>>]
    ELSE LET rest == replace_param(custom, Tail(path), prefix)
             type_expr == placeholder_type(Head(path))
             converter == get_converter(custom, type_expr)
         IN  IF type_expr = None
             THEN [pattern |-> <<Head(path)>> \o rest.pattern, param_casts |-> rest.param_casts]
             ELSE [pattern |-> prefix \o <<"(?P<x>", converter.regex, ")">> \o rest.pattern,
                   param_casts |-> <<converter.cast>> \o rest.param_casts]

\* _compile_pattern past the cache: the pattern text and the casters compiled
\* from the path with the custom types of the converter
compile(custom, path, strict_slashes, prefix) ==
    LET r == replace_param(custom, normalize_path(path, strict_slashes), prefix)
    IN  [pattern_str |-> <<"^">> \o r.pattern \o <<"$">>, param_casts |-> r.param_casts]

\* cache_key = f"{path}|{strict_slashes}|{prefix}"
cache_key(path, strict_slashes, prefix) ==
    path \o <<"|", IF strict_slashes THEN "True" ELSE "False", "|">> \o prefix

\* a call of _compile_pattern: the converter, the arguments, whether the cache
\* answered, and what was returned
Compiled(converter, path, strict_slashes, prefix, cached, value) ==
    [converter |-> converter, path |-> path, strict_slashes |-> strict_slashes,
     prefix |-> prefix, cached |-> cached, value |-> value]

\* no converter has a custom type, nothing was compiled
NoCompile ==
    /\ compiled_cache = <<>>
    /\ custom_converters = [c \in Converters |-> [t \in {"t", "int"} |-> NoConverter]]
    /\ compiled = Compiled(0, <<>>, TRUE, <<>>, FALSE,
                           [pattern_str |-> <<>>, param_casts |-> <<>>])

\* what moves when a converter is used
ConverterFrame ==
    /\ UNCHANGED <<config_vars, http_vars, life_vars, http_after_failed>>
    /\ UNCHANGED <<mw_vars, executed, ws_conf_vars, ws_vars, reg_vars>>
    /\ UNCHANGED <<stage_vars, thread_vars, response_vars, returned, trace>>
    /\ UNCHANGED <<asgi_vars, session_vars>>

\* Converter.register_type(name, regex, cast): a regular expression with a
\* brace is refused
register_type(c, name, regex, cast) ==
    /\ IF regex = "a{2}"
       THEN UNCHANGED custom_converters
       ELSE custom_converters' =
                [custom_converters EXCEPT ![c][name] = [regex |-> regex, cast |-> cast]]
    /\ UNCHANGED <<compiled_cache, compiled>>
    /\ ConverterFrame

\* Converter._compile_pattern(path, strict_slashes, prefix)
compile_pattern(c, path, strict_slashes, prefix) ==
    LET key == cache_key(path, strict_slashes, prefix)
        fresh == compile(custom_converters[c], path, strict_slashes, prefix)
    IN  /\ \/ key \in DOMAIN compiled_cache
           \/ Cardinality(DOMAIN compiled_cache) < MaxCache
        /\ IF key \in DOMAIN compiled_cache
           THEN /\ compiled' = Compiled(c, path, strict_slashes, prefix, TRUE,
                                          compiled_cache[key])
                /\ UNCHANGED compiled_cache
           ELSE /\ compiled' = Compiled(c, path, strict_slashes, prefix, FALSE, fresh)
                /\ compiled_cache' = (key :> fresh) @@ compiled_cache
        /\ UNCHANGED custom_converters
        /\ ConverterFrame

----------------------------------------------------------------------------
(* Registration *)

\* Converter._validate_path: "//" in a path is a segment with nothing in it
\* before the last one (every path of the model starts with "/")
validate_path(path) ==
    /\ path # <<>>
    /\ \A i \in 1..(Len(path) - 1) : ~(path[i].kind = "lit" /\ path[i].arg = <<>>)

\* _process_routes: `if path.endswith('/'): path = ''`; a path that ends with
\* "/" has a last segment with nothing in it
root_path(path) ==
    IF path # <<>> /\ path[Len(path)] = Lit(<<>>) THEN <<>> ELSE path

\* Bermoid.include({url_prefix: schematic}) -> _process_routes for a schematic
\* with one route: the route is appended unless the converter refuses the path
include(url_prefix, path, methods) ==
    /\ pc \in {"idle", "done"}
    /\ Len(routes) < MaxRoutes
    /\ LET path_regex == url_prefix \o root_path(path)
       IN  IF validate_path(path_regex)
           THEN routes' = Append(routes, Route(path_regex, methods, Len(routes) + 1))
           ELSE UNCHANGED routes
    /\ UNCHANGED <<registry_routes, debug, exception_handlers>>
    /\ UNCHANGED http_vars
    /\ UNCHANGED life_vars
    /\ UNCHANGED http_after_failed
    /\ UNCHANGED <<mw_vars, executed, ws_conf_vars, ws_vars, reg_vars>>
    /\ UNCHANGED <<stage_vars, thread_vars, ext_vars, returned, trace>>

----------------------------------------------------------------------------
(* The global registry: core.routing *)

\* the members of the HTTPMethod enumeration
HTTPMethod == {"GET", "POST", "PUT", "DELETE", "HEAD", "OPTIONS", "PATCH", "TRACE"}
AllMethods == <<"GET", "POST", "PUT", "DELETE", "HEAD", "OPTIONS", "PATCH", "TRACE">>

\* the methods arguments passed at registration: None or empty, lower case,
\* repeated, and one that names no method
MethodLists == {<<>>, <<"get">>, <<"get", "GET">>, <<"brew">>}

Endpoints == {1, 2}

\* HTTPMethod.normalize_list(methods); Schematic._validate_methods does the same
normalize_list(methods) ==
    IF methods = <<>> THEN [raised |-> FALSE, methods |-> <<"GET">>]
    ELSE IF \E i \in 1..Len(methods) : upper(methods[i]) \notin HTTPMethod
    THEN [raised |-> TRUE, methods |-> <<>>]
    ELSE [raised |-> FALSE, methods |-> [i \in 1..Len(methods) |-> upper(methods[i])]]

\* the Route dataclass of the registry; endpoint 0 stands for None
RegistryRoute(path, methods, handler, endpoint) ==
    [path_regex |-> path, methods |-> methods, handler |-> handler, endpoint |-> endpoint]

\* DuplicateHandler.route_exists / regex_route_exists
route_exists(registry, path, endpoint) ==
    \E i \in 1..Len(registry) :
        registry[i].path_regex = path /\ registry[i].endpoint = endpoint

\* the Link dataclass of the registry
Link(path, endpoint) == [path |-> path, endpoint |-> endpoint]

\* a call into the registry: the function, its path argument, how it ended
RegResult(op, result, path) == [op |-> op, result |-> result, path |-> path]

\* what a registration call leaves behind when it raises
Rejected(op, error, path) ==
    /\ reg_result' = RegResult(op, error, path)
    /\ UNCHANGED <<registry_routes, registry_links>>

\* a registration that appends the route and no link
Added_routes_only(op, path, route, a_link) ==
    /\ reg_result' = RegResult(op, "added", path)
    /\ registry_routes' = Append(registry_routes, route)
    /\ UNCHANGED registry_links

\* `_routes.append(Route(...))` and `_links.append(Link(...))`
Added(op, path, route, a_link) ==
    /\ reg_result' = RegResult(op, "added", path)
    /\ registry_routes' = Append(registry_routes, route)
    /\ registry_links' = Append(registry_links, a_link)

\* what a call into the registry leaves alone
RegistryFrame ==
    /\ UNCHANGED <<routes, debug, exception_handlers>>
    /\ UNCHANGED http_vars
    /\ UNCHANGED life_vars
    /\ UNCHANGED http_after_failed
    /\ UNCHANGED <<mw_vars, executed, ws_conf_vars, ws_vars>>
    /\ UNCHANGED <<stage_vars, thread_vars, ext_vars, returned, trace>>

\* HTTPRouting.rule(path, endpoint, methods=...); endpoint 0 is an endpoint
\* that is None or not async
rule(path, endpoint, methods) ==
    /\ pc \in {"idle", "done"}
    /\ Len(registry_routes) < MaxRegistry
    /\ LET normal == normalize_list(methods)
       IN  IF \/ endpoint = 0
              \/ normal.raised
              \/ ~validate_path(path)
              \/ route_exists(registry_routes, path, endpoint)
           THEN Rejected("rule", "ImproperlyConfigured", path)
           ELSE Added("rule", path, RegistryRoute(path, normal.methods, endpoint, endpoint),
                      Link(path, endpoint))
    /\ UNCHANGED handlers_set
    /\ RegistryFrame

\* HTTPRouting.re_rule(path_regex, endpoint, methods=...)
re_rule(path_regex, endpoint, methods) ==
    /\ pc \in {"idle", "done"}
    /\ Len(registry_routes) < MaxRegistry
    /\ LET normal == normalize_list(methods)
       IN  IF \/ endpoint = 0
              \/ normal.raised
              \/ ~validate_path(path_regex)
              \/ route_exists(registry_routes, path_regex, endpoint)
           THEN Rejected("re_rule", "ImproperlyConfigured", path_regex)
           ELSE Added("re_rule", path_regex,
                      RegistryRoute(path_regex, normal.methods, endpoint, endpoint),
                      Link(path_regex, endpoint))
    /\ UNCHANGED handlers_set
    /\ RegistryFrame

\* HTTPRouting.rule_all(path, endpoint=...): the only duplicate test is
\* DuplicateHandler._ensure_unique_handler, on the handlers rule_all has seen;
\* it records the handler before the pattern is compiled
rule_all(path, endpoint) ==
    /\ pc \in {"idle", "done"}
    /\ Len(registry_routes) < MaxRegistry
    /\ IF endpoint = 0
       THEN /\ Rejected("rule_all", "TypeError", path)
            /\ UNCHANGED handlers_set
       ELSE IF endpoint \in handlers_set
       THEN /\ Rejected("rule_all", "ImproperlyConfigured", path)
            /\ UNCHANGED handlers_set
       ELSE /\ handlers_set' = handlers_set \cup {endpoint}
            /\ IF validate_path(path)
               THEN Added("rule_all", path, RegistryRoute(path, AllMethods, endpoint, endpoint),
                          Link(path, endpoint))
               ELSE Rejected("rule_all", "ImproperlyConfigured", path)
    /\ RegistryFrame

\* an item of an include list: the 7-tuple (sub_path, sub_methods, sub_handler,
\* ..., sub_endpoint, name), its path already under the prefix
Item(path, methods, handler, endpoint) ==
    [path |-> path, methods |-> methods, handler |-> handler, endpoint |-> endpoint]

\* RoutingHelpers._include_routes: the loop over the items from item i on; the
\* duplicate test compares the stored endpoints with sub_handler
RECURSIVE include_routes_loop(_, _, _, _)
include_routes_loop(registry, links, includes, i) ==
    IF i > Len(includes) THEN [routes |-> registry, links |-> links, raised |-> FALSE]
    ELSE LET item == includes[i]
             normal == normalize_list(item.methods)
         IN  IF \/ item.handler = 0
                \/ normal.raised
                \/ ~validate_path(item.path)
                \/ route_exists(registry, item.path, item.handler)
             THEN [routes |-> registry, links |-> links, raised |-> TRUE]
             ELSE include_routes_loop(
                      Append(registry, RegistryRoute(item.path, normal.methods,
                                                     item.handler, item.endpoint)),
                      Append(links, Link(item.path, item.endpoint)), includes, i + 1)

\* HTTPRouting.rule(prefix, include=[items]) -> RoutingHelpers._include_routes
include_routes(includes) ==
    /\ pc \in {"idle", "done"}
    /\ LET r == include_routes_loop(registry_routes, registry_links, includes, 1)
       IN  /\ Len(r.routes) <= MaxRegistry
           /\ registry_routes' = r.routes
           /\ registry_links' = r.links
           /\ reg_result' = RegResult("include",
                  IF r.raised THEN "ImproperlyConfigured" ELSE "added", <<>>)
    /\ UNCHANGED handlers_set
    /\ RegistryFrame

\* link(url_prefix, schematic) -> _SchematicInstance._process_routes for a
\* schematic whose one route was registered by Schematic.rule(path, methods):
\* the route is appended with no duplicate test; its endpoint is None
link(url_prefix, path, methods, handler) ==
    /\ pc \in {"idle", "done"}
    /\ Len(registry_routes) < MaxRegistry
    /\ LET valid == normalize_list(methods)
           full_path == url_prefix \o root_path(path)
       IN  IF valid.raised \/ ~validate_path(path)
           THEN Rejected("link", "SchematicError", url_prefix \o path)
           ELSE IF ~validate_path(full_path)
           THEN Rejected("link", "ImproperlyConfigured", url_prefix \o path)
           ELSE Added("link", url_prefix \o path,
                      RegistryRoute(full_path, valid.methods, handler, 0),
                      Link(full_path, 0))
    /\ UNCHANGED handlers_set
    /\ RegistryFrame

\* reset_registry()
reset_registry ==
    /\ pc \in {"idle", "done"}
    /\ registry_routes' = <<>>
    /\ registry_links' = <<>>
    /\ registry_websockets' = <<>>
    /\ handlers_set' = {}
    /\ reg_result' = RegResult("reset_registry", "cleared", <<>>)
    /\ UNCHANGED <<routes, debug, exception_handlers, websockets>>
    /\ UNCHANGED <<http_vars, life_vars, http_after_failed, mw_vars, executed, ws_vars>>
    /\ UNCHANGED <<stage_vars, thread_vars, ext_vars, returned, trace>>

----------------------------------------------------------------------------
(* Threads calling into core.routing.  Every function of the module works on *)
(* the lists inside `with _lock:` sections; a thread moves from one section  *)
(* boundary or statement to the next in one step.                            *)

Threads == 1..MaxThreads

\* the locals of a thread inside a call: the function, its arguments, the copy
\* a reader got, and how the last call ended
Thread(tpc, op, path, endpoint) ==
    [pc |-> tpc, op |-> op, path |-> path, endpoint |-> endpoint,
     snapshot |-> <<>>, result |-> None]

RegistrationOps == {"rule", "re_rule", "rule_all"}

\* the registrations other threads have begun and not finished
Pending(t) ==
    Cardinality({u \in Threads \ {t} :
                    threads[u].op \in RegistrationOps /\ threads[u].pc # "idle"})

\* a step of a thread moves nothing outside the registry
ThreadFrame ==
    /\ UNCHANGED <<routes, debug, exception_handlers, reg_result>>
    /\ UNCHANGED http_vars
    /\ UNCHANGED life_vars
    /\ UNCHANGED http_after_failed
    /\ UNCHANGED <<mw_vars, executed, ws_conf_vars, ws_vars>>
    /\ UNCHANGED <<stage_vars, returned, trace, ext_vars>>

\* a thread enters rule, re_rule, rule_all, get_registered_routes or
\* reset_registry: the argument tests and the compilation of the pattern touch
\* no list, the thread arrives at its first `with _lock:`
ThreadCall(t, op, path, endpoint) ==
    /\ pc = "idle"
    /\ threads[t].pc = "idle"
    /\ op \in RegistrationOps => Len(registry_routes) + Pending(t) < MaxRegistry
    /\ threads' = [threads EXCEPT ![t] = Thread("acquire", op, path, endpoint)]
    /\ UNCHANGED <<lock, registry_routes, registry_links, handlers_set>>
    /\ ThreadFrame

\* `with _lock:` entered: the lock is taken when no other thread holds it
ThreadAcquire(t) ==
    /\ threads[t].pc \in {"acquire", "acquire_append"}
    /\ lock = 0
    /\ lock' = t
    /\ threads' = [threads EXCEPT ![t].pc =
          IF threads[t].pc = "acquire_append" THEN "append"
          ELSE IF threads[t].op \in {"rule", "re_rule"} THEN "route_exists"
          ELSE IF threads[t].op = "rule_all" THEN "ensure_unique_handler"
          ELSE IF threads[t].op = "get_registered_routes" THEN "copy"
          ELSE "clear"]
    /\ UNCHANGED <<registry_routes, registry_links, handlers_set>>
    /\ ThreadFrame

\* rule / re_rule inside the lock: the duplicate test; raising leaves the section
ThreadRouteExists(t) ==
    /\ threads[t].pc = "route_exists"
    /\ IF route_exists(registry_routes, threads[t].path, threads[t].endpoint)
       THEN /\ threads' = [threads EXCEPT ![t].pc = "idle",
                                          ![t].result = "ImproperlyConfigured"]
            /\ lock' = 0
       ELSE /\ threads' = [threads EXCEPT ![t].pc = "append"]
            /\ lock' = lock
    /\ UNCHANGED <<registry_routes, registry_links, handlers_set>>
    /\ ThreadFrame

\* rule_all -> DuplicateHandler._ensure_unique_handler: a `with _lock:` section
\* of its own, left before the pattern is compiled and the route appended
ThreadEnsureUniqueHandler(t) ==
    /\ threads[t].pc = "ensure_unique_handler"
    /\ IF threads[t].endpoint \in handlers_set
       THEN /\ threads' = [threads EXCEPT ![t].pc = "idle",
                                          ![t].result = "ImproperlyConfigured"]
            /\ UNCHANGED handlers_set
       ELSE /\ threads' = [threads EXCEPT ![t].pc = "acquire_append"]
            /\ handlers_set' = handlers_set \cup {threads[t].endpoint}
    /\ lock' = 0
    /\ UNCHANGED <<registry_routes, registry_links>>
    /\ ThreadFrame

\* _routes.append(Route(...)): the Route is built before it is appended
ThreadAppend(t) ==
    /\ threads[t].pc = "append"
    /\ registry_routes' = Append(registry_routes,
          RegistryRoute(threads[t].path,
                        IF threads[t].op = "rule_all" THEN AllMethods ELSE <<"GET">>,
                        threads[t].endpoint, threads[t].endpoint))
    /\ threads' = [threads EXCEPT ![t].pc = "links_append"]
    /\ UNCHANGED <<lock, registry_links, handlers_set>>
    /\ ThreadFrame

\* _links.append(Link(...)) and the end of the section
ThreadLinksAppend(t) ==
    /\ threads[t].pc = "links_append"
    /\ registry_links' = Append(registry_links, Link(threads[t].path, threads[t].endpoint))
    /\ threads' = [threads EXCEPT ![t].pc = "idle", ![t].result = "added"]
    /\ lock' = 0
    /\ UNCHANGED <<registry_routes, handlers_set>>
    /\ ThreadFrame

\* get_registered_routes: `return list(_routes)` inside the lock
ThreadCopy(t) ==
    /\ threads[t].pc = "copy"
    /\ threads' = [threads EXCEPT ![t].pc = "return", ![t].snapshot = registry_routes]
    /\ UNCHANGED <<lock, registry_routes, registry_links, handlers_set>>
    /\ ThreadFrame

ThreadReturn(t) ==
    /\ threads[t].pc = "return"
    /\ threads' = [threads EXCEPT ![t].pc = "idle", ![t].result = "returned"]
    /\ lock' = 0
    /\ UNCHANGED <<registry_routes, registry_links, handlers_set>>
    /\ ThreadFrame

\* reset_registry: the lists and _handlers_set are cleared inside the lock
ThreadClear(t) ==
    /\ threads[t].pc = "clear"
    /\ registry_routes' = <<>>
    /\ registry_links' = <<>>
    /\ handlers_set' = {}
    /\ threads' = [threads EXCEPT ![t].pc = "idle", ![t].result = "cleared"]
    /\ lock' = 0
    /\ ThreadFrame

ThreadOps == RegistrationOps \cup {"get_registered_routes", "reset_registry"}

----------------------------------------------------------------------------
(* Middleware: Schematic.middleware, Bermoid._add_middlewares and            *)
(* Bermoid.apply_middlewares                                                 *)

Schematics == {1, 2}

\* the dict Schematic.middleware appends; `does` is what the callable does with
\* (request, response): "pass" returns the response it was given, "respond"
\* returns a response of its own, "raise" raises
MiddlewareEntry(middleware, order, conditions, active, does) ==
    [middleware |-> middleware, order |-> order, conditions |-> conditions,
     group |-> None, active |-> active, excludes |-> <<>>, does |-> does]

\* Schematic.__init__: self.middleware(self._schematicIdMiddleware)
schematicIdMiddleware(s) == MiddlewareEntry(10 * s, 0, <<>>, TRUE, "pass")

\* list.sort(key=lambda x: x["order"]): a stable sort
sort_by_order(ms) ==
    LET rank(i) == 1 + Cardinality({j \in 1..Len(ms) :
                           \/ ms[j].order < ms[i].order
                           \/ ms[j].order = ms[i].order /\ j < i})
    IN  [k \in 1..Len(ms) |-> ms[CHOOSE i \in 1..Len(ms) : rank(i) = k]]

\* the registrations the model makes: a plain entry, an inactive one, a
\* conditional one, and one that answers by itself
MiddlewareShapes ==
    {[order |-> 2, conditions |-> <<>>,      active |-> TRUE,  does |-> "pass"],
     [order |-> 1, conditions |-> <<>>,      active |-> FALSE, does |-> "pass"],
     [order |-> 2, conditions |-> <<"PUT">>, active |-> TRUE,  does |-> "pass"],
     [order |-> 1, conditions |-> <<>>,      active |-> TRUE,  does |-> "respond"]}

Registered(s) == Len(schematic_middlewares[s]) - 1

\* Schematic.middleware(middleware, order, conditions, group, active, excludes),
\* called while the application is set up, before the first connection
middleware(s, shape) ==
    /\ pc = "idle"
    /\ Registered(1) + Registered(2) < MaxMiddlewares
    /\ schematic_middlewares' =
           [schematic_middlewares EXCEPT ![s] =
               sort_by_order(Append(@, MiddlewareEntry(10 * s + Registered(s) + 1, shape.order,
                                        shape.conditions, shape.active, shape.does)))]
    /\ UNCHANGED <<middlewares, executed>>
    /\ UNCHANGED config_vars
    /\ UNCHANGED http_vars
    /\ UNCHANGED life_vars
    /\ UNCHANGED http_after_failed
    /\ UNCHANGED <<ws_conf_vars, ws_vars, reg_vars>>
    /\ UNCHANGED <<stage_vars, thread_vars, ext_vars, returned, trace>>

Includes == Cardinality({i \in 1..Len(middlewares) : middlewares[i].order = 0})

\* Bermoid.include({prefix: schematic}, include_middlewares=True) for a
\* schematic that has no route and no socket route: _add_middlewares
include_middlewares(s) ==
    /\ pc = "idle"
    /\ Includes < MaxIncludes
    /\ middlewares' = middlewares \o schematic_middlewares[s]
    /\ UNCHANGED <<schematic_middlewares, executed>>
    /\ UNCHANGED config_vars
    /\ UNCHANGED http_vars
    /\ UNCHANGED life_vars
    /\ UNCHANGED http_after_failed
    /\ UNCHANGED <<ws_conf_vars, ws_vars, reg_vars>>
    /\ UNCHANGED <<stage_vars, thread_vars, ext_vars, returned, trace>>

\* Bermoid.middleware_activation: no operation of the dispatcher writes to it
middleware_activation == {}

\* a condition of an entry: a predicate on the request, here "the method is m"
condition(cond, request) == upper(request.method) = cond

\* `await middleware(request, response)`
middleware_call(entry, response) ==
    IF entry.does = "pass" THEN response
    ELSE IF entry.does = "respond" THEN Response("str", 403)
    ELSE Raise("Exception")

\* apply_middlewares: the loop over self._middlewares from entry i on; done is
\* the middleware awaited so far
RECURSIVE apply_middlewares(_, _, _, _, _)
apply_middlewares(entries, i, request, response, done) ==
    IF i > Len(entries)
    THEN [response |-> response, executed |-> done, raised |-> FALSE]
    ELSE LET entry == entries[i]
         IN  IF entry.middleware \in middleware_activation
             THEN apply_middlewares(entries, i + 1, request, response, done)
             ELSE IF \E k \in 1..Len(entry.conditions) :
                         ~condition(entry.conditions[k], request)
             THEN apply_middlewares(entries, i + 1, request, response, done)
             ELSE LET r == middleware_call(entry, response)
                  IN  IF r.kind = "raise"
                      THEN [response |-> response, executed |-> Append(done, entry.middleware),
                            raised |-> TRUE]
                      ELSE apply_middlewares(entries, i + 1, request, r,
                                             Append(done, entry.middleware))

----------------------------------------------------------------------------
(* Request stage hooks and handler signatures *)

\* an entry (handler, order, condition) of request_stage_handlers[stage]; the
\* order is stored and never read.  does is what the hook does when awaited:
\* return None ("pass"), return a value ("result") or raise ("raise")
StageEntry(handler, cond, does) ==
    [handler |-> handler, order |-> 0, condition |-> cond, does |-> does]

\* Bermoid.grouped_request_stages.get(stage, []) and Bermoid.excluded_stages for
\* settings that name no group and no exclusion
grouped_request_stages == <<>>
excluded_stages == {}

\* what handle_exception may do when a hook raised in debug mode
StageHandledSet ==
    IF debug THEN {Raise("Exception"), Response("str", 500)} ELSE {NoneValue}

\* _execute_request_stage_handlers(stage, ...), the loop from entry i on: ran
\* is the hooks awaited, raised the exception that left the method.  The value
\* the method returns (a hook's result, or _error_validator(500) after a hook
\* raised) is dropped by handle_request, so it is not part of the outcome
RECURSIVE execute_request_stage_handlers(_, _, _, _, _)
execute_request_stage_handlers(stage, handlers, i, request, handled) ==
    IF i > Len(handlers) THEN [ran |-> <<>>, raised |-> NoneValue]
    ELSE LET entry == handlers[i]
             rest == execute_request_stage_handlers(stage, handlers, i + 1, request, handled)
         IN  IF entry.handler \in excluded_stages THEN rest
             ELSE IF entry.condition # None /\ ~condition(entry.condition, request) THEN rest
             ELSE IF entry.does = "pass"
             THEN [rest EXCEPT !.ran = <<Stage(stage, entry.handler, FALSE)>> \o @]
             ELSE IF entry.does = "result"
             THEN [ran |-> <<Stage(stage, entry.handler, FALSE)>>, raised |-> NoneValue]
             ELSE IF ~debug
             THEN [ran |-> <<Stage(stage, entry.handler, TRUE)>>, raised |-> NoneValue]
             ELSE IF handled.kind = "raise"
             THEN [ran |-> <<Stage(stage, entry.handler, TRUE)>>, raised |-> handled]
             ELSE [rest EXCEPT !.ran = <<Stage(stage, entry.handler, TRUE)>> \o @]

\* the callables a parameter may name as a sub-dependency in its default value
Callables == {"f1", "f2"}

\* inspect.signature(handler).parameters: whether there is a parameter named
\* request, the callables the other parameters declare as sub-dependencies by
\* their default values, and the sub-dependencies each callable declares in turn
Signature(request, declares, sub) ==
    [request |-> request, declares |-> declares, sub |-> sub]
PlainSignature == Signature(TRUE, {}, [c \in Callables |-> {}])

\* handle_request, lines 347-366: the handler is awaited with the request (when
\* its signature has one) and the path parameters; a parameter with a default
\* value keeps it.  What the handler does is its own business: the outcome
call_handler(signature, request, outcome) == outcome

----------------------------------------------------------------------------
(* The HTTP connection flow *)

\* _helper_route_setup: `path, methods, ... = route` on a Route object of the
\* registry raises TypeError; with an empty registry nothing is added
helper_route_setup(rs, registry) ==
    IF registry # <<>>
    THEN [raised |-> TRUE, routes |-> rs]
    ELSE [raised |-> FALSE, routes |-> rs]

\* the method test of handle_request's loop
method_allowed(methods, method) ==
    methods = {} \/ upper(method) \in {upper(m) : m \in methods}

\* a scan that keeps going after a full match and ends on the last one
scan_last_match(rs, i, path, method, allowed) ==
    LET full == {k \in i..Len(rs) : /\ regex_match(rs[k].path_regex, path)
                                    /\ method_allowed(rs[k].methods, method)}
        part == {k \in i..Len(rs) : /\ regex_match(rs[k].path_regex, path)
                                    /\ ~method_allowed(rs[k].methods, method)}
    IN  [hit |-> IF full = {} THEN 0 ELSE CHOOSE k \in full : \A j \in full : j <= k,
         allowed |-> allowed \cup UNION {rs[k].methods : k \in part}]

\* handle_request's loop over self.routes up to the first full match:
\* hit is the index of that route (0 if none), allowed the allowed_methods set
RECURSIVE scan(_, _, _, _, _)
scan(rs, i, path, method, allowed) ==
    IF i > Len(rs) THEN [hit |-> 0, allowed |-> allowed]
    ELSE IF regex_match(rs[i].path_regex, path)
         THEN IF method_allowed(rs[i].methods, method)
              THEN [hit |-> i, allowed |-> allowed]
              ELSE scan(rs, i + 1, path, method, allowed \cup rs[i].methods)
         ELSE scan(rs, i + 1, path, method, allowed)

\* the response when no route body ran: the welcome page of an empty table,
\* else 405 or 404
unmatched_response(rs, allowed) ==
    IF rs = <<>> THEN Response("str", 200)
    ELSE IF allowed # {} THEN error_validator(405, allowed)
    ELSE error_validator(404, {})

unmatched_dispatch(rs, allowed) ==
    IF rs = <<>> THEN "welcome" ELSE IF allowed # {} THEN "405" ELSE "404"

\* __call__ with an http scope -> _http -> handle_request, up to the first await
HttpCall(path, method) ==
    /\ pc \in {"idle", "done"}
    /\ invoked' = <<>>
    /\ sent' = <<>>
    /\ propagated' = FALSE
    /\ returned' = NoneValue
    /\ LET setup == helper_route_setup(routes, registry_routes)
           found == scan(setup.routes, 1, path, method, {})
       IN  /\ routes' = setup.routes
           /\ req' = [path |-> path, method |-> method,
                      path_params |->
                          IF ~setup.raised /\ found.hit # 0
                          THEN processed_path_params(setup.routes[found.hit].path_regex, path)
                          ELSE <<>>]
           /\ IF setup.raised
              THEN /\ pc' = "except"
                   /\ exc' = Raise("TypeError")
                   /\ dispatch' = "error"
                   /\ matched' = 0
                   /\ resp' = NoneValue
                   /\ trace' = <<>>
              ELSE IF found.hit # 0
              THEN /\ pc' = "handler"
                   /\ exc' = NoneValue
                   /\ dispatch' = "matched"
                   /\ matched' = found.hit
                   /\ resp' = NoneValue
                   /\ trace' = <<Stage("match", found.hit, FALSE)>>
              ELSE /\ pc' = "post"
                   /\ exc' = NoneValue
                   /\ dispatch' = unmatched_dispatch(setup.routes, found.allowed)
                   /\ matched' = 0
                   /\ resp' = unmatched_response(setup.routes, found.allowed)
                   /\ trace' = <<Stage("match", 0, FALSE)>>
    /\ UNCHANGED <<registry_routes, debug, exception_handlers>>
    /\ UNCHANGED life_vars
    /\ UNCHANGED http_after_failed
    /\ executed' = <<>>
    /\ UNCHANGED <<mw_vars, ws_conf_vars, ws_vars, reg_vars>>
    /\ UNCHANGED <<stage_vars, thread_vars, ext_vars>>

\* what a route handler may do
HandlerOutcomes ==
    {StrValue, Response("str", 200), Response("obj", 200), NoneValue,
     NotFound(<<>>), Raise("Exception")}

StartupFailedSent ==
    \E i \in 1..Len(lifelog) :
        lifelog[i].ev = "send" /\ lifelog[i].type = "lifespan.startup.failed"

\* the body of the matched route: the hooks of the before stage are awaited,
\* then the handler, and its result is normalized
InvokeHandler(outcome) ==
    /\ pc = "handler"
    /\ \E handled \in StageHandledSet :
        LET handler == routes[matched].handler
            before == execute_request_stage_handlers(
                          "before", request_stage_handlers.before \o grouped_request_stages,
                          1, req, handled)
            result == call_handler(handler_params[handler], req, outcome)
            normal == IF result.kind = "raise" THEN result
                      ELSE process_response(result, handler_name(handler))
        IN  IF before.raised.kind = "raise"
            THEN /\ pc' = "except"
                 /\ exc' = before.raised
                 /\ resp' = NoneValue
                 /\ trace' = trace \o before.ran
                 /\ UNCHANGED <<invoked, returned, http_after_failed>>
            ELSE /\ invoked' = Append(invoked, handler)
                 /\ http_after_failed' = (http_after_failed \/ StartupFailedSent)
                 /\ returned' = result
                 /\ IF normal.kind = "raise"
                    THEN /\ pc' = "except"
                         /\ exc' = normal
                         /\ resp' = NoneValue
                    ELSE /\ pc' = "post"
                         /\ exc' = NoneValue
                         /\ resp' = normal
                 /\ trace' = trace \o before.ran
                                   \o <<Stage("endpoint", handler, result.kind = "raise")>>
                                   \o (IF result.kind = "raise" THEN <<>>
                                       ELSE <<Stage("normalize", handler, normal.kind = "raise")>>)
    /\ UNCHANGED <<req, matched, dispatch, sent, propagated>>
    /\ UNCHANGED config_vars
    /\ UNCHANGED life_vars
    /\ UNCHANGED <<mw_vars, executed, ws_conf_vars, ws_vars, reg_vars>>
    /\ UNCHANGED <<stage_vars, thread_vars, ext_vars>>

\* the response transformers (one of which may raise), apply_middlewares, the
\* test of its result and the hooks of the after stage
PostProcess(raises) ==
    /\ pc = "post"
    /\ \E handled \in StageHandledSet :
        LET r == apply_middlewares(middlewares, 1, req, resp, <<>>)
            after == execute_request_stage_handlers(
                         "after", request_stage_handlers.after \o grouped_request_stages,
                         1, req, handled)
        IN  IF raises
            THEN /\ pc' = "except" /\ exc' = Raise("Exception") /\ resp' = resp
                 /\ executed' = executed /\ trace' = trace
            ELSE IF resp.kind = "raise"
            THEN /\ pc' = "except" /\ exc' = resp /\ resp' = NoneValue
                 /\ executed' = executed /\ trace' = trace
            ELSE IF r.raised
            THEN /\ pc' = "except" /\ exc' = Raise("Exception") /\ resp' = r.response
                 /\ executed' = r.executed
                 /\ trace' = Append(trace, Stage("middleware", 0, TRUE))
            ELSE IF r.response.kind # "Response"
            THEN /\ pc' = "except" /\ exc' = Raise("ValueError") /\ resp' = r.response
                 /\ executed' = r.executed
                 /\ trace' = Append(trace, Stage("middleware", 0, FALSE))
            ELSE IF after.raised.kind = "raise"
            THEN /\ pc' = "except" /\ exc' = after.raised /\ resp' = r.response
                 /\ executed' = r.executed
                 /\ trace' = Append(trace, Stage("middleware", 0, FALSE)) \o after.ran
            ELSE /\ pc' = "send" /\ exc' = exc /\ resp' = r.response
                 /\ executed' = r.executed
                 /\ trace' = Append(trace, Stage("middleware", 0, FALSE)) \o after.ran
    /\ UNCHANGED <<req, matched, dispatch, invoked, sent, propagated, returned>>
    /\ UNCHANGED config_vars
    /\ UNCHANGED life_vars
    /\ UNCHANGED http_after_failed
    /\ UNCHANGED <<mw_vars, ws_conf_vars, ws_vars, reg_vars>>
    /\ UNCHANGED <<stage_vars, thread_vars, ext_vars>>

\* handle_request's `except Exception as e`
Except(handled) ==
    /\ pc = "except"
    /\ resp' = process_exception(exc, handled)
    /\ pc' = "send"
    /\ exc' = NoneValue
    /\ trace' = Append(trace, mapper_stage(exc, handled))
    /\ UNCHANGED <<req, matched, dispatch, invoked, sent, propagated>>
    /\ UNCHANGED config_vars
    /\ UNCHANGED life_vars
    /\ UNCHANGED http_after_failed
    /\ UNCHANGED <<mw_vars, executed, ws_conf_vars, ws_vars, reg_vars>>
    /\ UNCHANGED <<stage_vars, thread_vars, ext_vars, returned>>

\* handle_request's last line `await response(scope, receive, send)`, outside
\* the try.  When the connection ends its locals are gone
Send(fail) ==
    /\ pc = "send"
    /\ LET r == response_call(resp, fail)
       IN  /\ sent' = sent \o r.events
           /\ IF r.raised
              THEN /\ pc' = "fallback"
                   /\ exc' = HTTPException(500, <<"str(e)">>)
                   /\ resp' = resp
                   /\ trace' = Append(trace, Stage("send", 0, TRUE))
                   /\ returned' = returned
              ELSE /\ pc' = "done"
                   /\ exc' = NoneValue
                   /\ resp' = NoneValue
                   /\ trace' = <<>>
                   /\ returned' = NoneValue
    /\ matched' = 0
    /\ UNCHANGED <<req, dispatch, invoked, propagated>>
    /\ UNCHANGED config_vars
    /\ UNCHANGED life_vars
    /\ UNCHANGED http_after_failed
    /\ UNCHANGED <<mw_vars, executed, ws_conf_vars, ws_vars, reg_vars>>
    /\ UNCHANGED <<stage_vars, thread_vars, ext_vars>>

\* _http's `except Exception as e`: a second response is built and sent, outside
\* any try
Fallback(handled, fail) ==
    /\ pc = "fallback"
    /\ LET r2 == process_exception(exc, handled)
           r == response_call(r2, fail)
       IN  /\ sent' = sent \o r.events
           /\ propagated' = r.raised
    /\ pc' = "done"
    /\ exc' = NoneValue
    /\ resp' = NoneValue
    /\ trace' = <<>>
    /\ returned' = NoneValue
    /\ UNCHANGED <<req, matched, dispatch, invoked>>
    /\ UNCHANGED config_vars
    /\ UNCHANGED life_vars
    /\ UNCHANGED http_after_failed
    /\ UNCHANGED <<mw_vars, executed, ws_conf_vars, ws_vars, reg_vars>>
    /\ UNCHANGED <<stage_vars, thread_vars, ext_vars>>

----------------------------------------------------------------------------
(* The socket connection flow: _websocket_handler, _websocket_routes and     *)
(* _helper_websocket_routes.  The WebSocket class itself is not part of the  *)
(* sources: close and send_text each hand one event to the transport.        *)

SocketRoute(path_regex, handler) == [path_regex |-> path_regex, handler |-> handler]

NoException == [type |-> None, code |-> 0]
Exception(type, code) == [type |-> type, code |-> code]

\* WebSocket(scope, receive, send)
WebSocket(path) ==
    [path |-> path, matched |-> 0, client_state |-> "CONNECTING",
     application_state |-> "CONNECTING"]

\* ws.close(code, reason) and ws.send_text(text)
CloseEvent(code) == [type |-> "websocket.close", code |-> code]
TextEvent == [type |-> "websocket.send", code |-> 0]

\* Bermoid.include / _process_websockets: one socket route of a schematic is
\* appended to self.websockets
include_websocket(path_regex) ==
    /\ wpc \in {"idle", "done"}
    /\ Len(websockets) < MaxSockets
    /\ websockets' = Append(websockets, SocketRoute(path_regex, Len(websockets) + 1))
    /\ UNCHANGED <<registry_websockets, ws_vars, reg_vars, mw_vars, executed>>
    /\ UNCHANGED config_vars
    /\ UNCHANGED http_vars
    /\ UNCHANGED life_vars
    /\ UNCHANGED http_after_failed
    /\ UNCHANGED <<stage_vars, thread_vars, ext_vars, returned, trace>>

\* DuplicateHandler.websocket_exists(path, endpoint)
websocket_exists(registry, path, endpoint) ==
    \E i \in 1..Len(registry) :
        registry[i].path_regex = path /\ registry[i].handler = endpoint

\* WebsocketRouting.websocket(path, endpoint): a WebsocketRoute object is
\* appended to the global registry unless the same pair is there already
websocket(path_regex, endpoint) ==
    /\ wpc \in {"idle", "done"}
    /\ \/ Len(registry_websockets) < MaxRegistry
       \/ websocket_exists(registry_websockets, path_regex, endpoint)
    /\ IF websocket_exists(registry_websockets, path_regex, endpoint)
       THEN /\ reg_result' = RegResult("websocket", "ImproperlyConfigured", path_regex)
            /\ UNCHANGED registry_websockets
       ELSE /\ reg_result' = RegResult("websocket", "added", path_regex)
            /\ registry_websockets' =
                   Append(registry_websockets, SocketRoute(path_regex, endpoint))
    /\ UNCHANGED <<websockets, ws_vars, handlers_set, registry_links, mw_vars, executed>>
    /\ UNCHANGED config_vars
    /\ UNCHANGED http_vars
    /\ UNCHANGED life_vars
    /\ UNCHANGED http_after_failed
    /\ UNCHANGED <<stage_vars, thread_vars, ext_vars, returned, trace>>

\* the loop of _websocket_routes: the first socket route whose pattern matches
RECURSIVE websocket_scan(_, _, _)
websocket_scan(rs, i, path) ==
    IF i > Len(rs) THEN 0
    ELSE IF regex_match(rs[i].path_regex, path) THEN i
    ELSE websocket_scan(rs, i + 1, path)

\* __call__ with a websocket scope -> _websocket_handler -> _websocket_routes,
\* up to the first await
WebsocketCall(path) ==
    /\ wpc \in {"idle", "done"}
    /\ LET hit == websocket_scan(websockets, 1, path)
       IN  /\ ws' = [WebSocket(path) EXCEPT !.matched = hit]
           /\ wpc' = IF hit # 0 THEN "handler" ELSE "helper"
    /\ ws_exc' = NoException
    /\ ws_invoked' = <<>>
    /\ ws_sent' = <<>>
    /\ ws_propagated' = FALSE
    /\ UNCHANGED <<ws_conf_vars, reg_vars, mw_vars, executed>>
    /\ UNCHANGED config_vars
    /\ UNCHANGED http_vars
    /\ UNCHANGED life_vars
    /\ UNCHANGED http_after_failed
    /\ UNCHANGED <<stage_vars, thread_vars, ext_vars, returned, trace>>

\* the close codes a disconnect carries
DisconnectCodes == {1000, 1001}

\* what a socket handler may do: hand back the socket or something else, or
\* raise; accepted and connected are the states it leaves the socket in
SocketOutcomes ==
    [kind : {"WebSocket", "NoneType"}, code : {0}, accepted : BOOLEAN, connected : BOOLEAN]
    \cup [kind : {"WebSocketDisconnect"}, code : DisconnectCodes,
          accepted : {TRUE}, connected : {TRUE}]
    \cup [kind : {"RuntimeError", "Exception"}, code : {0},
          accepted : BOOLEAN, connected : BOOLEAN]

\* a dispatcher that takes whatever the handler hands back
WebsocketHandler_any(outcome) ==
    /\ wpc = "handler"
    /\ ws_invoked' = Append(ws_invoked, [handler |-> websockets[ws.matched].handler,
                                         outcome |-> outcome.kind])
    /\ ws' = [ws EXCEPT
                 !.client_state = IF outcome.connected THEN "CONNECTED" ELSE @,
                 !.application_state = IF outcome.accepted THEN "CONNECTED" ELSE @]
    /\ IF outcome.kind \in {"WebSocket", "NoneType"}
       THEN wpc' = "helper" /\ ws_exc' = NoException
       ELSE wpc' = "except" /\ ws_exc' = Exception(outcome.kind, outcome.code)
    /\ UNCHANGED <<ws_sent, ws_propagated>>
    /\ UNCHANGED <<ws_conf_vars, reg_vars, mw_vars, executed>>
    /\ UNCHANGED config_vars
    /\ UNCHANGED http_vars
    /\ UNCHANGED life_vars
    /\ UNCHANGED http_after_failed
    /\ UNCHANGED <<stage_vars, thread_vars, ext_vars, returned, trace>>

\* _websocket_routes: `response = await handler(ws, **ws.path_params)` and the
\* isinstance test of what it handed back
WebsocketHandler(outcome) ==
    /\ wpc = "handler"
    /\ ws_invoked' = Append(ws_invoked, [handler |-> websockets[ws.matched].handler,
                                         outcome |-> outcome.kind])
    /\ ws' = [ws EXCEPT
                 !.client_state = IF outcome.connected THEN "CONNECTED" ELSE @,
                 !.application_state = IF outcome.accepted THEN "CONNECTED" ELSE @]
    /\ IF outcome.kind = "WebSocket"
       THEN wpc' = "helper" /\ ws_exc' = NoException
       ELSE IF outcome.kind = "NoneType"
       THEN wpc' = "except" /\ ws_exc' = Exception("TypeError", 0)
       ELSE wpc' = "except" /\ ws_exc' = Exception(outcome.kind, outcome.code)
    /\ UNCHANGED <<ws_sent, ws_propagated>>
    /\ UNCHANGED <<ws_conf_vars, reg_vars, mw_vars, executed>>
    /\ UNCHANGED config_vars
    /\ UNCHANGED http_vars
    /\ UNCHANGED life_vars
    /\ UNCHANGED http_after_failed
    /\ UNCHANGED <<stage_vars, thread_vars, ext_vars, returned, trace>>

\* a loop over the registry that unpacks its routes and awaits the handler of
\* the first one that matches
HelperWebsocketRoutes_unpacked ==
    /\ wpc = "helper"
    /\ LET hit == websocket_scan(registry_websockets, 1, ws.path)
       IN  ws_invoked' = IF hit = 0 THEN ws_invoked
                         ELSE Append(ws_invoked,
                                     [handler |-> registry_websockets[hit].handler,
                                      outcome |-> "WebSocket"])
    /\ wpc' = "done"
    /\ ws_exc' = NoException
    /\ UNCHANGED <<ws, ws_sent, ws_propagated>>
    /\ UNCHANGED <<ws_conf_vars, reg_vars, mw_vars, executed>>
    /\ UNCHANGED config_vars
    /\ UNCHANGED http_vars
    /\ UNCHANGED life_vars
    /\ UNCHANGED http_after_failed
    /\ UNCHANGED <<stage_vars, thread_vars, ext_vars, returned, trace>>

\* _helper_websocket_routes: `path, path_regex, handler = ...` on a
\* WebsocketRoute object of the registry raises TypeError; with an empty
\* registry the loop does nothing and _websocket_handler returns
HelperWebsocketRoutes ==
    /\ wpc = "helper"
    /\ IF registry_websockets # <<>>
       THEN wpc' = "except" /\ ws_exc' = Exception("TypeError", 0)
       ELSE wpc' = "done" /\ ws_exc' = NoException
    /\ UNCHANGED <<ws, ws_invoked, ws_sent, ws_propagated>>
    /\ UNCHANGED <<ws_conf_vars, reg_vars, mw_vars, executed>>
    /\ UNCHANGED config_vars
    /\ UNCHANGED http_vars
    /\ UNCHANGED life_vars
    /\ UNCHANGED http_after_failed
    /\ UNCHANGED <<stage_vars, thread_vars, ext_vars, returned, trace>>

\* an except clause for disconnects that closes like an unexpected failure
websocket_except_no_disconnect(e, socket) ==
    IF e.type = "RuntimeError"
    THEN <<CloseEvent(IF socket.client_state # "CONNECTED" THEN 403 ELSE 1011)>>
    ELSE <<TextEvent,
           CloseEvent(IF socket.application_state # "CONNECTED" THEN 1006 ELSE 1011)>>

\* the except clauses of _websocket_handler: the events handed to the transport
websocket_except(e, socket) ==
    IF e.type = "WebSocketDisconnect"
    THEN <<CloseEvent(e.code)>>
    ELSE IF e.type = "RuntimeError"
    THEN <<CloseEvent(IF socket.client_state # "CONNECTED" THEN 403 ELSE 1011)>>
    ELSE <<TextEvent,
           CloseEvent(IF socket.application_state # "CONNECTED" THEN 1006 ELSE 1011)>>

WebsocketExcept ==
    /\ wpc = "except"
    /\ ws_sent' = ws_sent \o websocket_except(ws_exc, ws)
    /\ wpc' = "done"
    /\ UNCHANGED <<ws, ws_exc, ws_invoked, ws_propagated>>
    /\ UNCHANGED <<ws_conf_vars, reg_vars, mw_vars, executed>>
    /\ UNCHANGED config_vars
    /\ UNCHANGED http_vars
    /\ UNCHANGED life_vars
    /\ UNCHANGED http_after_failed
    /\ UNCHANGED <<stage_vars, thread_vars, ext_vars, returned, trace>>

WebsocketNext ==
    \/ \E p \in Paths : WebsocketCall(p)
    \/ \E o \in SocketOutcomes : WebsocketHandler(o)
    \/ HelperWebsocketRoutes
    \/ WebsocketExcept

RegisterWebsocket ==
    \/ \E t \in Templates : include_websocket(t)
    \/ \E t \in RegistryTemplates : websocket(t, 1)

----------------------------------------------------------------------------
(* The lifespan connection flow *)

\* a loader that puts each new handler in front of the earlier ones
RECURSIVE load_lifespan_handlers_front(_, _, _)
load_lifespan_handlers_front(lifespans, event_type, index) ==
    IF index > Len(lifespans) THEN <<>>
    ELSE IF lifespans[index] = event_type
         THEN load_lifespan_handlers_front(lifespans, event_type, index + 1) \o <<index>>
         ELSE load_lifespan_handlers_front(lifespans, event_type, index + 1)

\* _load_lifespan_handlers: the origins (here the positions in
\* settings.LIFESPAN_EVENTS) of one event type, appended in order
RECURSIVE load_lifespan_handlers(_, _, _)
load_lifespan_handlers(lifespans, event_type, index) ==
    IF index > Len(lifespans) THEN <<>>
    ELSE IF lifespans[index] = event_type
         THEN <<index>> \o load_lifespan_handlers(lifespans, event_type, index + 1)
         ELSE load_lifespan_handlers(lifespans, event_type, index + 1)

LifespanEventTypes == {"lifespan.startup", "lifespan.shutdown", "lifespan.other"}

Entry(ev, h, type) == [ev |-> ev, hook |-> h, type |-> type]

\* __call__ with a lifespan scope -> _lifespan, up to `await receive()`
LifespanCall ==
    /\ lpc = "idle"
    /\ lpc' = "receive"
    /\ started' = FALSE
    /\ UNCHANGED <<lifespan_events, startup_handlers, shutdown_handlers, hook, lifelog>>
    /\ UNCHANGED config_vars
    /\ UNCHANGED http_vars
    /\ UNCHANGED http_after_failed
    /\ UNCHANGED <<mw_vars, executed, ws_conf_vars, ws_vars, reg_vars>>
    /\ UNCHANGED <<stage_vars, thread_vars, ext_vars, returned, trace>>

\* `event = await receive()`, outside the try, and the test of event['type']
ReceiveEvent(type) ==
    /\ lpc = "receive"
    /\ lifelog' = Append(lifelog, Entry("receive", 0, type))
    /\ hook' = 1
    /\ lpc' = IF type = "lifespan.startup" THEN "startup" ELSE "shutdown"
    /\ UNCHANGED <<lifespan_events, startup_handlers, shutdown_handlers, started>>
    /\ UNCHANGED config_vars
    /\ UNCHANGED http_vars
    /\ UNCHANGED http_after_failed
    /\ UNCHANGED <<mw_vars, executed, ws_conf_vars, ws_vars, reg_vars>>
    /\ UNCHANGED <<stage_vars, thread_vars, ext_vars, returned, trace>>

\* _startup_handlers: `await handler()` begins
StartupHandlerBegin ==
    /\ lpc = "startup"
    /\ hook <= Len(startup_handlers)
    /\ lifelog' = Append(lifelog, Entry("begin", startup_handlers[hook], "startup"))
    /\ lpc' = "startup_await"
    /\ UNCHANGED <<lifespan_events, startup_handlers, shutdown_handlers, started, hook>>
    /\ UNCHANGED config_vars
    /\ UNCHANGED http_vars
    /\ UNCHANGED http_after_failed
    /\ UNCHANGED <<mw_vars, executed, ws_conf_vars, ws_vars, reg_vars>>
    /\ UNCHANGED <<stage_vars, thread_vars, ext_vars, returned, trace>>

\* a startup loop that swallows a handler's failure and goes on
StartupHandlerEnd_swallow(ok) ==
    /\ lpc = "startup_await"
    /\ lifelog' = Append(lifelog,
                     Entry(IF ok THEN "end" ELSE "fail", startup_handlers[hook], "startup"))
    /\ lpc' = "startup"
    /\ hook' = hook + 1
    /\ UNCHANGED <<lifespan_events, startup_handlers, shutdown_handlers, started>>
    /\ UNCHANGED config_vars
    /\ UNCHANGED http_vars
    /\ UNCHANGED http_after_failed
    /\ UNCHANGED <<mw_vars, executed, ws_conf_vars, ws_vars, reg_vars>>
    /\ UNCHANGED <<stage_vars, thread_vars, ext_vars, returned, trace>>

\* _startup_handlers: the awaited handler returns, or raises into the
\* `except BaseException` of _lifespan
StartupHandlerEnd(ok) ==
    /\ lpc = "startup_await"
    /\ lifelog' = Append(lifelog,
                     Entry(IF ok THEN "end" ELSE "fail", startup_handlers[hook], "startup"))
    /\ IF ok
       THEN lpc' = "startup" /\ hook' = hook + 1
       ELSE lpc' = "except" /\ hook' = hook
    /\ UNCHANGED <<lifespan_events, startup_handlers, shutdown_handlers, started>>
    /\ UNCHANGED config_vars
    /\ UNCHANGED http_vars
    /\ UNCHANGED http_after_failed
    /\ UNCHANGED <<mw_vars, executed, ws_conf_vars, ws_vars, reg_vars>>
    /\ UNCHANGED <<stage_vars, thread_vars, ext_vars, returned, trace>>

\* `await send({"type": "lifespan.startup.complete"})` and `started = True`;
\* a send that raises leaves started False
StartupComplete(ok) ==
    /\ lpc = "startup"
    /\ hook > Len(startup_handlers)
    /\ lifelog' = Append(lifelog, Entry("send", 0, "lifespan.startup.complete"))
    /\ IF ok
       THEN lpc' = "receive_next" /\ started' = TRUE
       ELSE lpc' = "except" /\ started' = started
    /\ UNCHANGED <<lifespan_events, startup_handlers, shutdown_handlers, hook>>
    /\ UNCHANGED config_vars
    /\ UNCHANGED http_vars
    /\ UNCHANGED http_after_failed
    /\ UNCHANGED <<mw_vars, executed, ws_conf_vars, ws_vars, reg_vars>>
    /\ UNCHANGED <<stage_vars, thread_vars, ext_vars, returned, trace>>

\* the second `await receive()`, inside the try: its event is not looked at
ReceiveNext(type, ok) ==
    /\ lpc = "receive_next"
    /\ lifelog' = Append(lifelog,
                     IF ok THEN Entry("receive", 0, type) ELSE Entry("receive", 0, "raise"))
    /\ hook' = 1
    /\ lpc' = IF ok THEN "shutdown" ELSE "except"
    /\ UNCHANGED <<lifespan_events, startup_handlers, shutdown_handlers, started>>
    /\ UNCHANGED config_vars
    /\ UNCHANGED http_vars
    /\ UNCHANGED http_after_failed
    /\ UNCHANGED <<mw_vars, executed, ws_conf_vars, ws_vars, reg_vars>>
    /\ UNCHANGED <<stage_vars, thread_vars, ext_vars, returned, trace>>

\* traceback.format_exc() in the except clause: the text of the exception being
\* handled, here the handler that raised it (0 when a send or receive raised)
exc_text ==
    IF lifelog # <<>> /\ lifelog[Len(lifelog)].ev = "fail"
    THEN lifelog[Len(lifelog)].hook
    ELSE 0

\* `except BaseException`: one failed acknowledgment carrying the text, then the
\* exception is re-raised
LifespanExcept ==
    /\ lpc = "except"
    /\ lifelog' = Append(lifelog,
                     Entry("send", exc_text, IF started THEN "lifespan.shutdown.failed"
                                                        ELSE "lifespan.startup.failed"))
    /\ lpc' = "raised"
    /\ UNCHANGED <<lifespan_events, startup_handlers, shutdown_handlers, started, hook>>
    /\ UNCHANGED config_vars
    /\ UNCHANGED http_vars
    /\ UNCHANGED http_after_failed
    /\ UNCHANGED <<mw_vars, executed, ws_conf_vars, ws_vars, reg_vars>>
    /\ UNCHANGED <<stage_vars, thread_vars, ext_vars, returned, trace>>

\* _shutdown_handlers, in the `else` of the try: `await handler()` begins
ShutdownHandlerBegin ==
    /\ lpc = "shutdown"
    /\ hook <= Len(shutdown_handlers)
    /\ lifelog' = Append(lifelog, Entry("begin", shutdown_handlers[hook], "shutdown"))
    /\ lpc' = "shutdown_await"
    /\ UNCHANGED <<lifespan_events, startup_handlers, shutdown_handlers, started, hook>>
    /\ UNCHANGED config_vars
    /\ UNCHANGED http_vars
    /\ UNCHANGED http_after_failed
    /\ UNCHANGED <<mw_vars, executed, ws_conf_vars, ws_vars, reg_vars>>
    /\ UNCHANGED <<stage_vars, thread_vars, ext_vars, returned, trace>>

\* _shutdown_handlers: the awaited handler returns, or raises out of _lifespan
\* (the `else` block is not covered by the except clause)
ShutdownHandlerEnd(ok) ==
    /\ lpc = "shutdown_await"
    /\ lifelog' = Append(lifelog,
                     Entry(IF ok THEN "end" ELSE "fail", shutdown_handlers[hook], "shutdown"))
    /\ IF ok
       THEN lpc' = "shutdown" /\ hook' = hook + 1
       ELSE lpc' = "raised" /\ hook' = hook
    /\ UNCHANGED <<lifespan_events, startup_handlers, shutdown_handlers, started>>
    /\ UNCHANGED config_vars
    /\ UNCHANGED http_vars
    /\ UNCHANGED http_after_failed
    /\ UNCHANGED <<mw_vars, executed, ws_conf_vars, ws_vars, reg_vars>>
    /\ UNCHANGED <<stage_vars, thread_vars, ext_vars, returned, trace>>

\* `await send({"type": "lifespan.shutdown.complete"})`
ShutdownComplete ==
    /\ lpc = "shutdown"
    /\ hook > Len(shutdown_handlers)
    /\ lifelog' = Append(lifelog, Entry("send", 0, "lifespan.shutdown.complete"))
    /\ lpc' = "done"
    /\ UNCHANGED <<lifespan_events, startup_handlers, shutdown_handlers, started, hook>>
    /\ UNCHANGED config_vars
    /\ UNCHANGED http_vars
    /\ UNCHANGED http_after_failed
    /\ UNCHANGED <<mw_vars, executed, ws_conf_vars, ws_vars, reg_vars>>
    /\ UNCHANGED <<stage_vars, thread_vars, ext_vars, returned, trace>>

LifespanNext ==
    \/ LifespanCall
    \/ \E t \in LifespanEventTypes : ReceiveEvent(t)
    \/ StartupHandlerBegin
    \/ \E ok \in BOOLEAN : StartupHandlerEnd(ok)
    \/ \E ok \in BOOLEAN : StartupComplete(ok)
    \/ \E t \in {"lifespan.shutdown", "lifespan.other"}, ok \in BOOLEAN : ReceiveNext(t, ok)
    \/ LifespanExcept
    \/ ShutdownHandlerBegin
    \/ \E ok \in BOOLEAN : ShutdownHandlerEnd(ok)
    \/ ShutdownComplete

\* the steps of a connection after its first await
HttpSteps ==
    \/ \E o \in HandlerOutcomes : InvokeHandler(o)
    \/ \E b \in BOOLEAN : PostProcess(b)
    \/ \E h \in HandledSet : Except(h)
    \/ \E f \in SendFailures : Send(f)
    \/ \E h \in HandledSet, f \in SendFailures : Fallback(h, f)

HttpNext ==
    \/ \E p \in Paths, m \in RequestMethods : HttpCall(p, m)
    \/ HttpSteps

Register ==
    \/ \E t \in Templates, ms \in RouteMethods : include(<<>>, t, ms)
    \/ \E t \in RegistryTemplates : rule(t, 1, <<>>)

HttpIdle ==
    /\ pc = "idle"
    /\ req = [path |-> <<>>, method |-> "GET", path_params |-> <<>>]
    /\ matched = 0
    /\ resp = NoneValue
    /\ exc = NoneValue
    /\ dispatch = "none"
    /\ invoked = <<>>
    /\ sent = <<>>
    /\ propagated = FALSE
    /\ http_after_failed = FALSE
    /\ executed = <<>>
    /\ returned = NoneValue
    /\ trace = <<>>

----------------------------------------------------------------------------
(* The ASGI middleware stack: src/core/asgi/middleware.py.  An entry is      *)
(* named by its place in the configured list; a factory wraps the            *)
(* application it is given or raises, and a layer hands the connection to    *)
(* what it wraps.                                                            *)

\* _MiddlewareSpec as _normalize builds it; raises: whether the factory raises
MiddlewareSpec(name, stage, order, raises) ==
    [name |-> name, stage |-> stage, order |-> order, raises |-> raises]

\* build_middleware_stack: `for spec, factory in ...: app = _wrap_with_options(...)`;
\* the application is a sequence of layers, the outermost first
RECURSIVE wrap_with_options(_, _)
wrap_with_options(app, resolved) ==
    IF resolved = <<>> THEN [layers |-> app, state |-> "ok"]
    ELSE IF Head(resolved).raises THEN [layers |-> <<>>, state |-> "ASGIMiddlewareLoaderError"]
    ELSE wrap_with_options(<<Head(resolved).name>> \o app, Tail(resolved))

\* ASGIMiddlewareLoader.build_middleware_stack(app)
build_middleware_stack(resolved) ==
    LET pre_both == sort_by_order(SelectSeq(resolved, LAMBDA t : t.stage \in {"pre", "both"}))
        post == sort_by_order(SelectSeq(resolved, LAMBDA t : t.stage = "post"))
        wrapped == wrap_with_options(<<>>, pre_both)
    IN  IF wrapped.state # "ok" THEN wrapped ELSE wrap_with_options(wrapped.layers, post)

\* what moves when the ASGI stack is configured, built or called
ASGIFrame ==
    /\ UNCHANGED <<config_vars, http_vars, life_vars, http_after_failed>>
    /\ UNCHANGED <<mw_vars, executed, ws_conf_vars, ws_vars, reg_vars>>
    /\ UNCHANGED <<stage_vars, thread_vars, converter_vars, response_vars, returned, trace>>
    /\ UNCHANGED session_vars

\* settings.MIDDLEWARE gets one more entry: load_specs -> _normalize
load_specs(stage, order, raises) ==
    /\ asgi_app.state = None
    /\ Len(asgi_specs) < MaxASGI
    /\ asgi_specs' = Append(asgi_specs, MiddlewareSpec(Len(asgi_specs) + 1, stage, order, raises))
    /\ UNCHANGED <<asgi_app, asgi_seen>>
    /\ ASGIFrame

\* ASGI._apply_middlewares_with_loader(app, loader): the stack, or the error
\* raised again and no application
apply_middlewares_with_loader ==
    /\ asgi_app.state = None
    /\ asgi_app' = build_middleware_stack(asgi_specs)
    /\ UNCHANGED <<asgi_specs, asgi_seen>>
    /\ ASGIFrame

\* a connection is handed to the application that was built: each layer sees
\* it and hands it to the layer it wraps
ASGIConnection ==
    /\ asgi_app.state = "ok"
    /\ asgi_seen = <<>>
    /\ asgi_seen' = Append(asgi_app.layers, 0)
    /\ UNCHANGED <<asgi_specs, asgi_app>>
    /\ ASGIFrame

\* no ASGI middleware is configured
NoStack ==
    /\ asgi_specs = <<>>
    /\ asgi_app = [layers |-> <<>>, state |-> None]
    /\ asgi_seen = <<>>

----------------------------------------------------------------------------
(* The in-memory session stage: src/core/backend/sessions/memorysession.py. *)
(* Time is counted in minutes; the ids _generate_session_id gives are 1, 2, *)
(* ... and never one that was given or presented before.                    *)

\* timedelta(minutes=_settings.get("session_lifetime", 30))
session_lifetime == 30

\* `if self._cleanup_counter % 50 == 0`
cleanup_interval == 50

\* _cleanup_sessions: the sessions whose _updated_at + session_lifetime < now go
cleanup_sessions(all, time) ==
    [sid \in {i \in DOMAIN all : ~(all[i].updated_at + session_lifetime < time)} |-> all[sid]]

\* what moves when the session stage runs or time passes
SessionFrame ==
    /\ UNCHANGED <<config_vars, http_vars, life_vars, http_after_failed>>
    /\ UNCHANGED <<mw_vars, executed, ws_conf_vars, ws_vars, reg_vars>>
    /\ UNCHANGED <<stage_vars, thread_vars, converter_vars, response_vars, returned, trace>>
    /\ UNCHANGED asgi_vars

\* InMemorySessionBeforeStage.__call__(request) for a request whose session
\* cookie is `presented` (0: no cookie)
session_call(presented) ==
    LET fresh == presented = 0 \/ presented \notin DOMAIN sessions
        session_id == IF fresh THEN generated + 1 ELSE presented
        touched == (session_id :> [updated_at |-> now]) @@ sessions
        counter == (cleanup_counter + 1) % cleanup_interval
    IN  /\ fresh => generated < MaxSessions
        /\ generated' = IF fresh THEN generated + 1 ELSE generated
        /\ attached' = [id |-> session_id, presented |-> presented]
        /\ cleanup_counter' = counter
        /\ sessions' = IF counter = 0 THEN cleanup_sessions(touched, now) ELSE touched
        /\ UNCHANGED now
        /\ SessionFrame

\* datetime.now() moves on by a quarter of an hour
Tick ==
    /\ now + 15 <= MaxTime
    /\ now' = now + 15
    /\ UNCHANGED <<sessions, cleanup_counter, generated, attached>>
    /\ SessionFrame

\* no session exists
NoSessions ==
    /\ sessions = <<>>
    /\ now = 0
    /\ cleanup_counter = 0
    /\ generated = 0
    /\ attached = [id |-> 0, presented |-> 0]

\* no schematic registered a middleware or was included, no socket route exists
\* and no socket connection was made
NoPlugins ==
    /\ schematic_middlewares = [s \in Schematics |-> <<schematicIdMiddleware(s)>>]
    /\ middlewares = <<>>
    /\ websockets = <<>>
    /\ registry_websockets = <<>>
    /\ wpc = "idle"
    /\ ws = WebSocket(<<>>)
    /\ ws_exc = NoException
    /\ ws_invoked = <<>>
    /\ ws_sent = <<>>
    /\ ws_propagated = FALSE
    /\ handlers_set = {}
    /\ reg_result = RegResult(None, None, <<>>)
    /\ registry_links = <<>>
    /\ threads = [t \in Threads |-> Thread("idle", None, <<>>, 0)]
    /\ lock = 0
    /\ NoCompile

NoExtensions ==
    /\ NoPlugins
    /\ NoResponse
    /\ NoStack
    /\ NoSessions

\* settings.STAGE_HANDLERS with one hook of the before stage that does nothing
\* (process_stage_handlers refuses an empty list), handlers with plain signatures
DefaultStages ==
    /\ request_stage_handlers = [before |-> <<StageEntry(1, None, "pass")>>, after |-> <<>>]
    /\ handler_params = [h \in 1..MaxRoutes |-> PlainSignature]

LifeIdle ==
    /\ lpc = "idle"
    /\ started = FALSE
    /\ hook = 0
    /\ lifelog = <<>>

\* the application after construction with no lifespan events configured
Init ==
    /\ routes = <<>>
    /\ registry_routes = <<>>
    /\ debug \in BOOLEAN
    /\ exception_handlers \in BOOLEAN
    /\ HttpIdle
    /\ lifespan_events = <<>>
    /\ startup_handlers = <<>>
    /\ shutdown_handlers = <<>>
    /\ LifeIdle
    /\ NoExtensions
    /\ DefaultStages

Next == Register \/ HttpNext

Spec == Init /\ [][Next]_vars

EventSeqs == UNION {[1..n -> {"startup", "shutdown"}] : n \in 0..MaxHooks}

\* an application that included one schematic route, GET /a, constructed with
\* any settings.LIFESPAN_EVENTS of up to MaxHooks entries
InitLifespan ==
    /\ routes = <<Route(<<Lit(Seg_a)>>, {"GET"}, 1)>>
    /\ registry_routes = <<>>
    /\ debug = FALSE
    /\ exception_handlers = FALSE
    /\ HttpIdle
    /\ lifespan_events \in EventSeqs
    /\ startup_handlers = load_lifespan_handlers(lifespan_events, "startup", 1)
    /\ shutdown_handlers = load_lifespan_handlers(lifespan_events, "shutdown", 1)
    /\ LifeIdle
    /\ NoExtensions
    /\ DefaultStages

NextLifespan == LifespanNext \/ HttpNext

SpecLifespan == InitLifespan /\ [][NextLifespan]_vars

RegisterMiddleware ==
    \/ \E s \in Schematics, sh \in MiddlewareShapes : middleware(s, sh)
    \/ \E s \in Schematics : include_middlewares(s)

\* an application with one route, GET /a, and two schematics that register
\* middleware and are included with include_middlewares=True
InitMiddleware ==
    /\ routes = <<Route(<<Lit(Seg_a)>>, {"GET"}, 1)>>
    /\ registry_routes = <<>>
    /\ debug = FALSE
    /\ exception_handlers = FALSE
    /\ HttpIdle
    /\ lifespan_events = <<>>
    /\ startup_handlers = <<>>
    /\ shutdown_handlers = <<>>
    /\ LifeIdle
    /\ NoExtensions
    /\ DefaultStages

\* an application whose socket routes are registered while it runs
NextWebsocket == RegisterWebsocket \/ WebsocketNext

SpecWebsocket == InitMiddleware /\ [][NextWebsocket]_vars

\* the paths given to the registry: "/a", "/{x}" and "//a"
GlobalTemplates == Templates \cup {<<Lit(<<>>), Lit(Seg_a)>>}

\* include lists of one item, and of a valid item followed by one whose path
\* the converter refuses
IncludeLists ==
    {<<Item(t, <<>>, e, se)>> : t \in Templates, e \in Endpoints, se \in {0, 1}}
    \cup {<<Item(<<Lit(Seg_a)>>, <<>>, e, e), Item(<<Lit(<<>>), Lit(Seg_a)>>, <<>>, e, e)>> :
              e \in Endpoints}

RegisterGlobal ==
    \/ \E t \in GlobalTemplates, e \in Endpoints \cup {0}, ms \in MethodLists : rule(t, e, ms)
    \/ \E t \in GlobalTemplates, e \in Endpoints : re_rule(t, e, <<>>)
    \/ \E t \in GlobalTemplates, e \in Endpoints \cup {0} : rule_all(t, e)
    \/ \E includes \in IncludeLists : include_routes(includes)
    \/ \E t \in Templates, e \in Endpoints, ms \in MethodLists : link(<<>>, t, ms, e)
    \/ websocket(<<Lit(Seg_a)>>, 1)
    \/ reset_registry

\* registration on the global registry, from an empty registry
SpecRegistry == InitMiddleware /\ [][RegisterGlobal]_vars

\* "/items/{id:int}", "/u/{name:str}", "/f/{v:float}" and "/{x}"
Seg_items == <<"i", "t", "e", "m", "s">>
ItemsTemplate == <<Lit(Seg_items), Param("int")>>
ConvertTemplates ==
    {ItemsTemplate, <<Lit(<<"u">>), Param("str")>>, <<Lit(<<"f">>), Param("float")>>,
     <<Param("")>>}

\* "/items/42", "/items/abc", "/u/007", "/u/123", "/f/5", "/f/1.5", "/1.5", "/abc"
Seg_42 == <<"4", "2">>
Seg_abc == <<"a", "b", "c">>
ConvertPaths ==
    {<<Seg_items, Seg_42>>, <<Seg_items, Seg_abc>>, <<<<"u">>, <<"0", "0", "7">>>>,
     <<<<"u">>, <<"1", "2", "3">>>>, <<<<"f">>, <<"5">>>>, <<<<"f">>, <<"1", ".", "5">>>>,
     <<<<"1", ".", "5">>>>, <<Seg_abc>>}

\* an application whose routes carry typed placeholders, registered through
\* included schematics or through the global registry's rule
NextConvert ==
    \/ \E t \in ConvertTemplates : include(<<>>, t, {"GET"})
    \/ rule(ItemsTemplate, 1, <<"get">>)
    \/ \E p \in ConvertPaths : HttpCall(p, "get")
    \/ HttpSteps

InitConvert ==
    /\ routes = <<>>
    /\ registry_routes = <<>>
    /\ debug = FALSE
    /\ exception_handlers = FALSE
    /\ HttpIdle
    /\ lifespan_events = <<>>
    /\ startup_handlers = <<>>
    /\ shutdown_handlers = <<>>
    /\ LifeIdle
    /\ NoExtensions
    /\ DefaultStages

SpecConvert == InitConvert /\ [][NextConvert]_vars

NextMiddleware ==
    \/ RegisterMiddleware
    \/ \E m \in RequestMethods : HttpCall(<<Seg_a>>, m)
    \/ HttpSteps

SpecMiddleware == InitMiddleware /\ [][NextMiddleware]_vars

\* what a handler may return: strings, structured values, (body, status)
\* pairs, pairs whose second element is no status, a 3-tuple, a Response, None
\* and a number
Bodies ==
    {Str(t) : t \in Texts} \cup {Dict("str"), Dict("obj"), List("str"), NoneValue, IntObject(5)}
ReturnShapes ==
    Bodies
    \cup {Response("str", 202)}
    \cup {Tuple(<<b, c>>) : b \in Bodies, c \in {IntObject(201), IntObject(404), Str(<<"h", "i">>)}}
    \cup {Tuple(<<Str(<<"h", "i">>), IntObject(201), IntObject(0)>>)}

\* an application with one route, GET /a, whose handler returns any shape
NextNormalize ==
    \/ HttpCall(<<Seg_a>>, "get")
    \/ \E o \in ReturnShapes : InvokeHandler(o)
    \/ PostProcess(FALSE)
    \/ \E h \in HandledSet : Except(h)
    \/ \E f \in SendFailures : Send(f)
    \/ \E h \in HandledSet, f \in SendFailures : Fallback(h, f)

SpecNormalize == InitMiddleware /\ [][NextNormalize]_vars

\* the exceptions a handler may raise: NotFound with and without a detail, an
\* HTTPException with a status and a detail, an exception of another type with
\* a message
Details == {<<>>, <<"gone">>, <<"no such item">>}
RaisedSet ==
    {NotFound(d) : d \in Details}
    \cup {HTTPException(c, d) : c \in {404, 418, 503}, d \in Details}
    \cup {RaiseWith("Exception", m) : m \in {<<"m1">>, <<"m2">>}}

\* an application with one route, GET /a, whose handler raises, under every
\* setting of DEBUG and EXCEPTION_HANDLER
InitMapper ==
    /\ routes = <<Route(<<Lit(Seg_a)>>, {"GET"}, 1)>>
    /\ registry_routes = <<>>
    /\ debug \in BOOLEAN
    /\ exception_handlers \in BOOLEAN
    /\ HttpIdle
    /\ lifespan_events = <<>>
    /\ startup_handlers = <<>>
    /\ shutdown_handlers = <<>>
    /\ LifeIdle
    /\ NoExtensions
    /\ DefaultStages

NextMapper ==
    \/ HttpCall(<<Seg_a>>, "get")
    \/ \E o \in RaisedSet \cup {StrValue} : InvokeHandler(o)
    \/ PostProcess(FALSE)
    \/ \E h \in HandledSet : Except(h)
    \/ \E f \in SendFailures : Send(f)
    \/ \E h \in HandledSet, f \in SendFailures : Fallback(h, f)

SpecMapper == InitMapper /\ [][NextMapper]_vars

\* signatures of handlers: plain; a parameter that declares f1, which declares
\* f2, which declares f1 again; the same chain without the way back; and a
\* handler without a request parameter that declares both
Cyclic == [c \in Callables |-> IF c = "f1" THEN {"f2"} ELSE {"f1"}]
Signatures ==
    {PlainSignature, Signature(TRUE, {"f1"}, Cyclic),
     Signature(TRUE, {"f1"}, [c \in Callables |-> IF c = "f1" THEN {"f2"} ELSE {}]),
     Signature(FALSE, {"f1", "f2"}, Cyclic)}

\* an application with the routes GET /a and GET /{x}, whose handlers have any
\* of the signatures
InitResolve ==
    /\ routes = <<Route(<<Lit(Seg_a)>>, {"GET"}, 1), Route(<<Param("str")>>, {"GET"}, 2)>>
    /\ registry_routes = <<>>
    /\ debug = FALSE
    /\ exception_handlers = FALSE
    /\ HttpIdle
    /\ lifespan_events = <<>>
    /\ startup_handlers = <<>>
    /\ shutdown_handlers = <<>>
    /\ LifeIdle
    /\ NoExtensions
    /\ request_stage_handlers = [before |-> <<StageEntry(1, None, "pass")>>, after |-> <<>>]
    /\ handler_params \in [1..MaxRoutes -> Signatures]

NextResolve ==
    \/ \E p \in {<<Seg_a>>, <<Seg_7>>} : HttpCall(p, "get")
    \/ HttpSteps

SpecResolve == InitResolve /\ [][NextResolve]_vars

\* threads that register routes on the global registry, read it and reset it
\* while others do the same
NextThreads ==
    \E t \in Threads :
        \/ \E op \in ThreadOps, path \in RegistryTemplates, e \in Endpoints :
              ThreadCall(t, op, path, e)
        \/ ThreadAcquire(t)
        \/ ThreadRouteExists(t)
        \/ ThreadEnsureUniqueHandler(t)
        \/ ThreadAppend(t)
        \/ ThreadLinksAppend(t)
        \/ ThreadCopy(t)
        \/ ThreadReturn(t)
        \/ ThreadClear(t)

SpecThreads == InitMiddleware /\ [][NextThreads]_vars

\* the hooks settings.STAGE_HANDLERS may name: one that does nothing, one that
\* returns a value, one that raises, and one with a condition on the method
StageShapes(id) ==
    {StageEntry(id, None, "pass"), StageEntry(id, None, "result"),
     StageEntry(id, None, "raise"), StageEntry(id, "GET", "pass")}

\* up to MaxStageHandlers hooks of the before stage (at least one), numbered
\* from 1, and at most one of the after stage, numbered 11
BeforeHandlers ==
    UNION {{h \in [1..n -> UNION {StageShapes(i) : i \in 1..n}] :
               \A i \in 1..n : h[i].handler = i} : n \in 1..MaxStageHandlers}

\* an application with one route, GET /a, and any hooks
InitStages ==
    /\ routes = <<Route(<<Lit(Seg_a)>>, {"GET"}, 1)>>
    /\ registry_routes = <<>>
    /\ debug \in BOOLEAN
    /\ exception_handlers = FALSE
    /\ HttpIdle
    /\ lifespan_events = <<>>
    /\ startup_handlers = <<>>
    /\ shutdown_handlers = <<>>
    /\ LifeIdle
    /\ NoExtensions
    /\ request_stage_handlers \in
           [before : BeforeHandlers, after : {<<>>} \cup {<<e>> : e \in StageShapes(11)}]
    /\ handler_params = [h \in 1..MaxRoutes |-> PlainSignature]

NextStages ==
    \/ \E p \in {<<Seg_a>>, <<Seg_7>>}, m \in RequestMethods : HttpCall(p, m)
    \/ HttpSteps

SpecStages == InitStages /\ [][NextStages]_vars

\* the compilations asked for: "/a" strict and not, "/{x:t}", "/{x:int}", "/a"
\* under the prefix "x|True|" and the path "/a|True|x"
CacheTriples ==
    {<<<<"/a">>, TRUE, <<>>>>, <<<<"/a">>, FALSE, <<>>>>,
     <<<<"/", "{x:t}">>, TRUE, <<>>>>, <<<<"/", "{x:int}">>, TRUE, <<>>>>,
     <<<<"/", "{x}">>, TRUE, <<"x", "|", "True", "|">>>>,
     <<<<"/a">>, TRUE, <<"x", "|", "True", "|">>>>,
     <<<<"/a", "|", "True", "|", "x">>, TRUE, <<>>>>}

NextCache ==
    \/ \E c \in Converters, n \in {"t", "int"}, r \in {"[0-9]+", "a{2}"} :
          register_type(c, n, r, IF n = "int" THEN "str" ELSE "int")
    \/ \E c \in Converters, k \in CacheTriples : compile_pattern(c, k[1], k[2], k[3])

\* converters that register custom types and compile patterns
SpecCache == InitMiddleware /\ [][NextCache]_vars

\* the contents of a response: None, "", "a", "aé", two bytes, {}, {"a": 1},
\* and producers of no chunk, of one chunk and of two
Contents ==
    {Content("NoneType", <<>>, <<>>)}
    \cup {Content("str", t, <<>>) : t \in {<<>>, <<"a">>, <<"a", "é">>}}
    \cup {Content("bytes", <<"b", "b">>, <<>>)}
    \cup {Content("dict", t, <<>>) : t \in {<<>>, <<"a">>}}
    \cup {Content("callable", <<>>, c) : c \in {<<>>, <<3>>, <<3, 2>>}}

\* a response built by a handler: cookies are set and deleted, then it is sent
InitResponse ==
    /\ routes = <<Route(<<Lit(Seg_a)>>, {"GET"}, 1)>>
    /\ registry_routes = <<>>
    /\ debug = FALSE
    /\ exception_handlers = FALSE
    /\ HttpIdle
    /\ lifespan_events = <<>>
    /\ startup_handlers = <<>>
    /\ shutdown_handlers = <<>>
    /\ LifeIdle
    /\ NoPlugins
    /\ DefaultStages
    /\ response_obj \in {ResponseObject(c, z) : c \in Contents, z \in BOOLEAN}
    /\ response_sent = <<>>
    /\ producer_calls = 0
    /\ NoStack
    /\ NoSessions

NextResponse ==
    \/ \E k \in {"sid", "expired_session"}, v \in {"", "v"} : set_cookie(k, v)
    \/ \E k \in {"sid", "expired_session"} : delete_cookie(k)
    \/ ResponseCall

SpecResponse == InitResponse /\ [][NextResponse]_vars

\* schematics linked under no prefix and under "/p", with routes "/a", "/{x}",
\* "/" and "/a/"
NextPrefix ==
    \/ \E url_prefix \in {<<>>, <<Lit(<<"p">>)>>}, e \in Endpoints, ms \in {<<"get">>, <<"brew">>},
          t \in Templates \cup {<<Lit(<<>>)>>, <<Lit(Seg_a), Lit(<<>>)>>} :
          link(url_prefix, t, ms, e)
    \/ reset_registry

SpecPrefix == InitMiddleware /\ [][NextPrefix]_vars

\* entries of order 1, 2 and 3 for the stages both and post, whose factories
\* wrap or raise
NextASGI ==
    \/ \E stage \in {"both", "post"}, order \in 1..3, raises \in BOOLEAN :
          load_specs(stage, order, raises)
    \/ apply_middlewares_with_loader
    \/ ASGIConnection

SpecASGI == InitMiddleware /\ [][NextASGI]_vars

\* requests with no cookie, with the id of a session given before and with an
\* id the server never gave (9), as time passes
NextSessions ==
    \/ \E presented \in (0..generated) \cup {9} : session_call(presented)
    \/ Tick

SpecSessions == InitMiddleware /\ [][NextSessions]_vars

----------------------------------------------------------------------------
(* Properties of the HTTP connection flow *)

StartCount(events) ==
    Cardinality({i \in 1..Len(events) : events[i].type = "http.response.start"})

InProgress == pc \notin {"idle", "done"}

\* the routes whose pattern matches the path of the request
PathMatches ==
    {i \in 1..Len(routes) : regex_match(routes[i].path_regex, req.path)}

\* the routes that match the path and allow the method of the request
FullMatches ==
    {i \in PathMatches : routes[i].methods = {} \/ upper(req.method) \in routes[i].methods}

First(S) == CHOOSE i \in S : \A j \in S : i <= j

\* C1: every HTTP connection hands exactly one response-start event to the
\* transport, never zero and never two, also when sending the response fails
\* part-way
C1_ExactlyOneResponseStart ==
    /\ StartCount(sent) <= 1
    /\ pc = "done" => StartCount(sent) = 1

\* C2: no exception of the HTTP connection flow propagates out of the entry
\* point to the transport
C2_NeverPropagates == propagated = FALSE

C4_MethodNotAllowedCarriesUnion ==
    (pc = "post" /\ invoked = <<>> /\ PathMatches # {} /\ FullMatches = {}) =>
        /\ resp.status_code = 405
        /\ resp.allow = UNION {routes[i].methods : i \in PathMatches}

\* C5: a request whose path matches no registered route's pattern is answered
\* 404 for every state of the route table, the empty one included, and 405 is
\* produced only when some route's pattern matches the path
C5_NotFoundDistinct ==
    InProgress =>
        /\ PathMatches = {} => dispatch = "404"
        /\ dispatch = "405" => PathMatches # {}

----------------------------------------------------------------------------
(* Properties of the lifespan flow *)

Sends(type) ==
    {i \in 1..Len(lifelog) : lifelog[i].ev = "send" /\ lifelog[i].type = type}

HookFails(kind) ==
    {i \in 1..Len(lifelog) : lifelog[i].ev = "fail" /\ lifelog[i].type = kind}

HookBegins == {i \in 1..Len(lifelog) : lifelog[i].ev = "begin"}

\* the handlers of one kind that ran to completion before position k of the log
IsEnd(e, kind) == e.ev = "end" /\ e.type = kind
RECURSIVE EndsBefore(_, _)
EndsBefore(kind, k) ==
    IF k <= 1 THEN <<>>
    ELSE IF IsEnd(lifelog[k - 1], kind)
         THEN Append(EndsBefore(kind, k - 1), lifelog[k - 1].hook)
         ELSE EndsBefore(kind, k - 1)

\* s lists, in the order of settings.LIFESPAN_EVENTS, every entry of one kind
IsRegistrationOrder(s, kind) ==
    /\ \A i \in 1..Len(s), j \in 1..Len(s) : i < j => s[i] < s[j]
    /\ {s[i] : i \in 1..Len(s)} =
           {p \in 1..Len(lifespan_events) : lifespan_events[p] = kind}

\* C6: when a startup hook fails, exactly one "startup failed" acknowledgment
\* carrying the failure is sent, "startup complete" is never sent, and neither
\* the remaining startup hooks nor any shutdown hook run
C6_StartupFailure ==
    \A i \in HookFails("startup") :
        /\ Sends("lifespan.startup.complete") = {}
        /\ \A j \in HookBegins : j < i
        /\ Cardinality(Sends("lifespan.startup.failed")) <= 1
        /\ Sends("lifespan.shutdown.failed") = {}
        /\ lpc \in {"except", "raised"}
        /\ lpc = "raised" =>
               \E j \in Sends("lifespan.startup.failed") :
                   j > i /\ lifelog[j].hook = lifelog[i].hook

C6_Witness ==
    /\ lpc = "raised"
    /\ Len(startup_handlers) >= 2
    /\ shutdown_handlers # <<>>
    /\ \E i \in HookFails("startup") : lifelog[i].hook = startup_handlers[1]

\* C7: startup hooks run one at a time in registration order, each to completion
\* before the next begins, and "startup complete" is sent only after the last
\* one completed; the same holds of shutdown hooks and "shutdown complete"
C7_HooksInOrder ==
    /\ \A k \in Sends("lifespan.startup.complete") :
           IsRegistrationOrder(EndsBefore("startup", k), "startup")
    /\ \A k \in Sends("lifespan.shutdown.complete") :
           IsRegistrationOrder(EndsBefore("shutdown", k), "shutdown")
    /\ \A k \in HookBegins :
           /\ k < Len(lifelog) =>
                  /\ lifelog[k + 1].ev \in {"end", "fail"}
                  /\ lifelog[k + 1].hook = lifelog[k].hook
           /\ \A j \in HookBegins :
                  (j < k /\ lifelog[j].type = lifelog[k].type) =>
                      lifelog[j].hook < lifelog[k].hook

C7_Witness ==
    /\ lpc = "done"
    /\ Sends("lifespan.startup.complete") # {}
    /\ Sends("lifespan.shutdown.complete") # {}
    /\ Len(startup_handlers) >= 2
    /\ shutdown_handlers # <<>>

\* C8: after startup completed, a shutdown whose hook fails is acknowledged with
\* "shutdown failed" and never with "shutdown complete", and the lifespan flow
\* ends with exactly one of the two acknowledgments
C8_ShutdownSymmetric ==
    (started /\ lpc \in {"raised", "done"}) =>
        /\ Cardinality(Sends("lifespan.shutdown.failed")
                           \cup Sends("lifespan.shutdown.complete")) = 1
        /\ HookFails("shutdown") # {} =>
               /\ Sends("lifespan.shutdown.failed") # {}
               /\ Sends("lifespan.shutdown.complete") = {}

\* C9: when the first lifespan event is not the startup event, no hook is run
\* and no "complete" acknowledgment is sent
C9_OnlyStartupFirst ==
    (lifelog # <<>> /\ lifelog[1].type # "lifespan.startup") =>
        /\ HookBegins = {}
        /\ Sends("lifespan.startup.complete") = {}
        /\ Sends("lifespan.shutdown.complete") = {}

\* C10: once "startup failed" was acknowledged, no HTTP connection is dispatched
\* to a route handler
C10_NoDispatchAfterStartupFailed == http_after_failed = FALSE

----------------------------------------------------------------------------
(* Properties of the middleware chain *)

\* the registered entry of a middleware that ran
EntryOf(id) == CHOOSE e \in {middlewares[i] : i \in 1..Len(middlewares)} : e.middleware = id

Accepts(e) == \A k \in 1..Len(e.conditions) : upper(req.method) = e.conditions[k]

\* the entries that are active and whose conditions accept the request, in the
\* order of the chain
Eligible == SelectSeq(middlewares, LAMBDA e : e.active /\ Accepts(e))

\* C11: a middleware that answers by itself instead of passing on to its
\* continuation keeps every downstream middleware and the endpoint from running,
\* and the response it returned is the one handed to the transport
C11_ShortCircuit ==
    \A k \in 1..Len(executed) :
        EntryOf(executed[k]).does = "respond" =>
            /\ k = Len(executed)
            /\ invoked = <<>>
            /\ pc = "send" => resp = Response("str", 403)

\* C12: the middleware entries that run on a connection run in ascending
\* numeric order, entries of equal order in registration order, from however
\* many included schematics they come
C12_AscendingOrder ==
    \A i \in 1..Len(executed), j \in 1..Len(executed) :
        i < j =>
            /\ EntryOf(executed[i]).order <= EntryOf(executed[j]).order
            /\ (/\ EntryOf(executed[i]).order = EntryOf(executed[j]).order
                /\ executed[i] \div 10 = executed[j] \div 10) => executed[i] <= executed[j]

\* C13: an entry registered with active=False, or whose condition rejects the
\* request, is never executed for that request; when the chain ran, every other
\* entry was executed exactly once
C13_InactiveNeverRuns ==
    /\ \A k \in 1..Len(executed) :
           EntryOf(executed[k]).active /\ Accepts(EntryOf(executed[k]))
    /\ (pc = "send" /\ executed # <<>>) =>
           executed = [k \in 1..Len(Eligible) |-> Eligible[k].middleware]

----------------------------------------------------------------------------
(* Properties of the socket connection flow *)

Closes == {i \in 1..Len(ws_sent) : ws_sent[i].type = "websocket.close"}

ErrorCloseCodes == {403, 1006, 1011}

\* C14: every socket connection ends with exactly one socket close issued by
\* the dispatcher and no HTTP response, whether no socket route matched, the
\* handler returned normally or the handler raised
C14_ExactlyOneClose ==
    wpc = "done" =>
        /\ Cardinality(Closes) = 1
        /\ \A i \in 1..Len(ws_sent) : ws_sent[i].type # "http.response.start"

C16_NonSocketIsTypeError ==
    \A k \in 1..Len(ws_invoked) :
        ws_invoked[k].outcome = "NoneType" =>
            /\ Len(ws_invoked) = 1
            /\ wpc \in {"except", "done"}
            /\ ws_exc.type = "TypeError"
            /\ wpc = "done" =>
                   /\ Cardinality(Closes) = 1
                   /\ ws_sent[Len(ws_sent)].type = "websocket.close"
                   /\ ws_sent[Len(ws_sent)].code \in ErrorCloseCodes \ {403}

C16_Witness ==
    /\ wpc = "done"
    /\ Len(websockets) = 2
    /\ \A i \in 1..2 : regex_match(websockets[i].path_regex, ws.path)
    /\ registry_websockets # <<>>
    /\ Len(ws_invoked) = 1
    /\ ws_invoked[1].outcome = "NoneType"

----------------------------------------------------------------------------
(* Properties of the global registry *)

\* C17: the registry never holds two routes with the same compiled pattern and
\* the same handler, and a registration that would add such a route is rejected
\* with a configuration error
C17_NoDuplicateRoutes ==
    \A i \in 1..Len(registry_routes), j \in 1..Len(registry_routes) :
        (/\ registry_routes[i].path_regex = registry_routes[j].path_regex
         /\ registry_routes[i].handler = registry_routes[j].handler) => i = j

\* C18: the methods of every route of the registry are non-empty, upper case
\* and free of duplicates, whatever list was passed at registration
C18_MethodsNormalized ==
    \A i \in 1..Len(registry_routes) :
        LET ms == registry_routes[i].methods
        IN  /\ ms # <<>>
            /\ \A k \in 1..Len(ms) : ms[k] \in HTTPMethod
            /\ \A k \in 1..Len(ms), l \in 1..Len(ms) : ms[k] = ms[l] => k = l

----------------------------------------------------------------------------
(* Properties of the path parameters *)

ItemsRegistered ==
    \/ \E i \in 1..Len(routes) :
           routes[i].path_regex = ItemsTemplate /\ "GET" \in routes[i].methods
    \/ \E i \in 1..Len(registry_routes) :
           /\ registry_routes[i].path_regex = ItemsTemplate
           /\ registry_routes[i].methods = <<"GET">>

\* C19: with /items/{id:int} registered for GET, through the registry's rule or
\* through an included schematic, GET /items/42 reaches that route's handler
\* with the integer 42 as id, and GET /items/abc is answered 404
C19_ItemsRoundTrip ==
    (InProgress /\ ItemsRegistered) =>
        /\ req.path = <<Seg_items, Seg_42>> =>
               /\ dispatch = "matched"
               /\ req.path_params = <<IntValue(42)>>
               /\ \A k \in 1..Len(invoked) :
                      \E i \in 1..Len(routes) :
                          /\ routes[i].handler = invoked[k]
                          /\ routes[i].path_regex = ItemsTemplate
        /\ req.path = <<Seg_items, Seg_abc>> => dispatch = "404"

\* the caster a placeholder declares
DeclaredCast(type, value) ==
    IF type = "int" THEN IntValue(int(value))
    ELSE IF type = "float" THEN FloatValue(value)
    ELSE TextValue(value)

\* C20: on a full match each captured value is cast with the caster its
\* placeholder declares (a str placeholder that captures "123" or "007" stays
\* text); only a placeholder that declares none gets the best-effort cast
C20_DeclaredCaster ==
    pc = "handler" =>
        LET placeholders == SelectSeq(routes[matched].path_regex, LAMBDA el : el.kind = "param")
            captured == groupdict(routes[matched].path_regex, req.path, 1)
        IN  /\ Len(req.path_params) = Len(placeholders)
            /\ \A k \in 1..Len(placeholders) :
                   req.path_params[k] =
                       IF placeholders[k].arg[1] = ""
                       THEN convert_value(captured[k])
                       ELSE DeclaredCast(placeholders[k].arg[1], captured[k])

----------------------------------------------------------------------------
(* Properties of response normalization *)

\* the last step of the connection was _process_response
Normalized == trace # <<>> /\ trace[Len(trace)].stage = "normalize"

\* the accepted shapes other than a Response
Structured(v) == v.kind \in {"dict", "list"}
IsPair(v) ==
    /\ v.kind = "tuple"
    /\ Len(v.items) = 2
    /\ v.items[2].kind = "int"
    /\ v.items[1].kind = "str" \/ Structured(v.items[1])

\* C21: a bare string, or the body of a (body, status) pair, becomes an HTML
\* response when its text starts with "<" and a plain-text response otherwise;
\* a structured value, bare or in a pair, becomes a JSON response; a Response
\* passes through unchanged; the status of a pair is the status of the
\* response and a bare value gets status 200
C21_NormalizedByShape ==
    (Normalized /\ ~trace[Len(trace)].raised) =>
        LET body == IF IsPair(returned) THEN returned.items[1] ELSE returned
        IN  /\ returned.kind = "Response" => resp = returned
            /\ (body.kind = "str" /\ (IsPair(returned) \/ returned.kind = "str")) =>
                  /\ resp.kind = "Response"
                  /\ resp.text = body.text
                  /\ resp.content_type =
                        IF startswith(body.text, "<") THEN "text/html" ELSE "text/plain"
            /\ (Structured(body) /\ (IsPair(returned) \/ Structured(returned))) =>
                  resp.kind = "Response" /\ resp.content_type = "application/json"
            /\ IsPair(returned) => resp.status_code = returned.items[2].status_code
            /\ (returned.kind = "str" \/ Structured(returned)) => resp.status_code = 200

\* C22: normalization either returns a Response or raises the TypeError that
\* names the handler; whatever the shape of the handler's value, it never
\* returns a value that is not a Response
C22_ResponseOrTypeError ==
    Normalized =>
        IF trace[Len(trace)].raised
        THEN exc.content = "TypeError" /\ exc.text = handler_name(routes[matched].handler)
        ELSE resp.kind = "Response"

----------------------------------------------------------------------------
(* Properties of the exception mapper *)

MapperBranches == {"error_validator", "handle_exception", "exception_handlers", "fallback"}

\* handle_request's except clause has just built the response for the
\* exception the handler raised
Mapped ==
    /\ pc = "send"
    /\ returned.kind = "raise"
    /\ trace # <<>>
    /\ trace[Len(trace)].stage \in MapperBranches

\* C23: a NotFound raised by the handler with detail d is answered with status
\* 404 and a body that carries d, the same response every time
C23_NotFoundCarriesDetail ==
    (Mapped /\ returned.content = "NotFound") =>
        /\ resp.kind = "Response"
        /\ resp.status_code = 404
        /\ resp.text = returned.text

\* C24: an HTTPException raised with a status s in 100..599 and a detail, of
\* the generic class or of a predefined one, is answered with exactly status s
\* and that detail
C24_DeclaredErrorUnaltered ==
    (Mapped /\ returned.content \in {"HTTPException", "NotFound"}
            /\ returned.status_code \in 100..599) =>
        /\ resp.kind = "Response"
        /\ resp.status_code = returned.status_code
        /\ resp.text = returned.text

\* C25: when settings.EXCEPTION_HANDLER is set, the custom handler is what
\* _process_exception tries first, whatever the type of the exception and
\* whatever the other settings
C25_CustomHandlerFirst ==
    (Mapped /\ exception_handlers) => trace[Len(trace)].stage = "exception_handlers"

\* C26: an exception of no declared kind, also when the custom handler raises
\* while handling it, is answered with status 500 and a body in which the
\* message of the exception does not appear
C26_GenericBody ==
    (/\ Mapped
     /\ ~debug
     /\ returned.content = "Exception"
     /\ trace[Len(trace)].stage = "fallback" \/ trace[Len(trace)].raised) =>
        /\ resp.kind = "Response"
        /\ resp.status_code = 500
        /\ \A i \in 1..Len(resp.text) : <<resp.text[i]>> # returned.text

----------------------------------------------------------------------------
(* Properties of handler argument resolution *)

\* the callables reachable from S through declared sub-dependencies, in at
\* most n steps
RECURSIVE Closure(_, _, _)
Closure(signature, S, n) ==
    IF n = 0 THEN S
    ELSE Closure(signature, S \cup UNION {signature.sub[c] : c \in S}, n - 1)

\* a callable the handler depends on depends on itself
HasCycle(signature) ==
    \E c \in Closure(signature, signature.declares, Cardinality(Callables)) :
        c \in Closure(signature, signature.sub[c], Cardinality(Callables))

\* C27: when the dependencies declared by the matched handler form a cycle,
\* the request fails before the handler (or any dependency callable) is
\* awaited, and it is answered with a status of the 500 class
C27_CycleFailsBeforeInvoking ==
    (matched # 0 /\ HasCycle(handler_params[routes[matched].handler])) =>
        /\ \A i \in 1..Len(invoked) : invoked[i] # routes[matched].handler
        /\ pc = "send" => (resp.kind = "Response" /\ resp.status_code \in 500..599)

----------------------------------------------------------------------------
(* Properties of the registry under concurrent callers *)

\* the thread is inside a `with _lock:` section
InSection(t) ==
    threads[t].pc \in {"route_exists", "ensure_unique_handler", "append", "links_append",
                       "copy", "return", "clear"}

\* the thread has passed the duplicate test of its registration and has not
\* finished inserting the route
BetweenTestAndInsertion(t) ==
    threads[t].pc \in {"acquire_append", "append", "links_append"}

\* C28: under every interleaving of registering and reading threads, the
\* duplicate test and the insertion of a registration are one atomic step (the
\* lock is held from the one to the other and no two threads are inside a
\* locked section), the registry never holds two routes of the same pattern
\* and handler, and the copy a reader gets holds only routes whose
\* registration is complete
C28_AtomicRegistration ==
    /\ \A t, u \in Threads : t # u => ~(InSection(t) /\ InSection(u))
    /\ \A t \in Threads : BetweenTestAndInsertion(t) => lock = t
    /\ \A i, j \in 1..Len(registry_routes) :
          (i # j /\ registry_routes[i].path_regex = registry_routes[j].path_regex)
              => registry_routes[i].handler # registry_routes[j].handler
    /\ \A t \in Threads :
          threads[t].pc = "return" =>
              /\ threads[t].snapshot = registry_routes
              /\ \A u \in Threads \ {t} : threads[u].pc # "links_append"

----------------------------------------------------------------------------
(* Properties of the request stages *)

\* the place of a step in the order of stages: hooks of the before stage,
\* route matching, the endpoint, the middleware chain and normalization, hooks
\* of the after stage; the exception mapper and the transport come last
Rank(stage) ==
    IF stage = "before" THEN 1
    ELSE IF stage = "match" THEN 2
    ELSE IF stage = "endpoint" THEN 3
    ELSE IF stage \in {"middleware", "normalize"} THEN 4
    ELSE IF stage = "after" THEN 5
    ELSE IF stage = "send" THEN 7
    ELSE 6

\* the hooks of the before stage whose condition accepts the request
EligibleBefore ==
    {i \in 1..Len(request_stage_handlers.before) :
        \/ request_stage_handlers.before[i].condition = None
        \/ condition(request_stage_handlers.before[i].condition, req)}

HookRaised(stage) ==
    \E i \in 1..Len(trace) : trace[i].stage = stage /\ trace[i].raised

\* C29: the steps of a connection come in the order of the stages, and the
\* hooks of the before stage run on every connection, also on one answered
\* 404 or 405, before the response goes to the transport
C29_StageOrder ==
    /\ \A i, j \in 1..Len(trace) :
          i < j => Rank(trace[i].stage) <= Rank(trace[j].stage)
    /\ (pc = "send" /\ EligibleBefore # {}) =>
          \E i \in 1..Len(trace) : trace[i].stage = "before"

\* C30: when a hook of the before or after stage raises, the exception mapper
\* builds the response of the connection; after a hook of the before stage
\* raised, the endpoint is not awaited
C30_HookExceptionMapped ==
    /\ \A i, j \in 1..Len(trace) :
          (i < j /\ trace[i].stage = "before" /\ trace[i].raised)
              => trace[j].stage # "endpoint"
    /\ (pc = "send" /\ (HookRaised("before") \/ HookRaised("after"))) =>
          trace[Len(trace)].stage \in MapperBranches

----------------------------------------------------------------------------
(* Properties of the pattern cache *)

\* C31: what _compile_pattern returns, from the cache or not, is what compiling
\* the same path, strictness and prefix gives with the custom types the
\* converter has at that moment, whatever converter filled the cache, whatever
\* was registered since, and whatever other (path, strictness, prefix) triples
\* were compiled before (no two triples share a cache entry)
C31_CacheIsTransparent ==
    [][compiled' # compiled =>
          compiled'.value = compile(custom_converters[compiled'.converter], compiled'.path,
                                    compiled'.strict_slashes, compiled'.prefix)]_vars

----------------------------------------------------------------------------
(* Properties of the registry across failing calls *)

\* C32: a registration call that fails with a configuration error leaves
\* _routes, _links, _websockets and _handlers_set as they were before the call
\* (so the same handler can be registered afterwards, and an include list that
\* fails on one item registers none of its items)
C32_FailedCallChangesNothing ==
    [][reg_result'.result \in {"ImproperlyConfigured", "TypeError", "SchematicError"} =>
          UNCHANGED <<registry_routes, registry_links, registry_websockets, handlers_set>>]_vars

\* C33: whatever registration and reset calls were made, and however they
\* ended, the route list and the link list have the same length, the i-th link
\* carries the endpoint of the i-th route, and after reset_registry the four
\* collections of the registry are empty
C33_LinksFollowRoutes ==
    /\ Len(registry_links) = Len(registry_routes)
    /\ \A i \in 1..Len(registry_routes) :
          registry_links[i].endpoint = registry_routes[i].endpoint
    /\ reg_result.op = "reset_registry" =>
          /\ registry_routes = <<>>
          /\ registry_links = <<>>
          /\ registry_websockets = <<>>
          /\ handlers_set = {}

\* two routes with different endpoints and a socket route are registered and
\* the last call, an include list, was refused
C33_Witness ==
    /\ Len(registry_routes) = 2
    /\ registry_routes[1].endpoint # registry_routes[2].endpoint
    /\ registry_websockets # <<>>
    /\ reg_result.op = "include"
    /\ reg_result.result = "ImproperlyConfigured"

----------------------------------------------------------------------------
(* Properties of the socket dispatch *)

\* the socket routes of the application whose pattern matches the path and
\* that have no matching route before them
FirstSocketMatches ==
    {i \in 1..Len(websockets) :
        /\ regex_match(websockets[i].path_regex, ws.path)
        /\ \A j \in 1..(i - 1) : ~regex_match(websockets[j].path_regex, ws.path)}

\* C34: on one socket connection at most one handler is awaited, and it is the
\* handler of the first route, in registration order, whose pattern matches
\* the path, also when routes of the application and of the global registry
\* both match
C34_AtMostOneSocketHandler ==
    /\ Len(ws_invoked) <= 1
    /\ \A k \in 1..Len(ws_invoked) :
          \E i \in FirstSocketMatches : ws_invoked[k].handler = websockets[i].handler

\* a connection is over whose path matches two routes of the application and
\* one of the global registry, and the handler handed the socket back
C34_Witness ==
    /\ wpc = "done"
    /\ Len(websockets) = 2
    /\ \A i \in 1..2 : regex_match(websockets[i].path_regex, ws.path)
    /\ \E i \in 1..Len(registry_websockets) :
          regex_match(registry_websockets[i].path_regex, ws.path)
    /\ Len(ws_invoked) = 1
    /\ ws_invoked[1].outcome = "WebSocket"

----------------------------------------------------------------------------
(* Properties of the Response object *)

\* C35: sending a response hands the transport exactly one start event, the
\* first, followed by at least one body event, and the last body event does
\* not announce more body.
C35_OneStartThenBody ==
    response_sent # <<>> =>
        /\ response_sent[1].type = "http.response.start"
        /\ Len(response_sent) >= 2
        /\ \A i \in 2..Len(response_sent) : response_sent[i].type = "http.response.body"
        /\ ~response_sent[Len(response_sent)].more_body

\* C36: the Content-Length of the start event is the number of bytes of the
\* body events that follow it, and the producer of a streaming response is
\* called once.
C36_ContentLengthIsBodyLength ==
    response_sent # <<>> =>
        /\ response_sent[1].content_length
              = sum([i \in 1..(Len(response_sent) - 1) |-> response_sent[i + 1].body])
        /\ producer_calls <= 1

\* C37: set_cookie and delete_cookie touch the cookie they name only: a cookie
\* the headers of the response carry is still carried after a call that names
\* another cookie.
C37_OtherCookiesKept ==
    [][\A k \in {"sid", "expired_session"} :
          response_obj.set_cookie.key = k /\ response_obj'.set_cookie # response_obj.set_cookie
              => response_obj'.set_cookie.key = k]_vars

----------------------------------------------------------------------------
(* Properties of routes under a prefix *)

\* a request for a path: its literal segments, and "a" for a placeholder
request_path(path) == [i \in 1..Len(path) |-> IF path[i].kind = "lit" THEN path[i].arg ELSE Seg_a]

\* C38: a route with path p of a schematic linked under the prefix P is
\* registered so that it matches the requests for P followed by p, also when p
\* ends with the separator (a route that is not strict about the last
\* separator may match with or without it).
C38_RouteMatchesPrefixedPath ==
    reg_result.op = "link" /\ reg_result.result = "added" =>
        LET route == registry_routes[Len(registry_routes)]
        IN  \/ regex_match(route.path_regex, request_path(reg_result.path))
            \/ regex_match(route.path_regex \o <<Lit(<<>>)>>, request_path(reg_result.path))

----------------------------------------------------------------------------
(* Properties of the ASGI middleware stack *)

\* C39: a connection passes through the configured middlewares in ascending
\* order, entries of one order in the order they were configured, and then
\* reaches the application; when a factory fails no application wrapped in
\* part is returned.
C39_ConnectionSeesAscendingOrder ==
    /\ \A i, j \in 1..(Len(asgi_seen) - 1) :
          i < j =>
              LET a == asgi_specs[asgi_seen[i]]
                  b == asgi_specs[asgi_seen[j]]
              IN  a.order < b.order \/ (a.order = b.order /\ a.name < b.name)
    /\ asgi_seen # <<>> => Len(asgi_seen) = Len(asgi_specs) + 1 /\ asgi_seen[Len(asgi_seen)] = 0
    /\ asgi_app.state = "ASGIMiddlewareLoaderError" => asgi_app.layers = <<>>

----------------------------------------------------------------------------
(* Properties of the in-memory session stage *)

\* C40: the session attached to a request is never one that was idle for
\* longer than the session lifetime when the request came: such a request gets
\* a session with a new id; and a request that presents an id the stage does
\* not know is never given a session of that id.
C40_NoExpiredSessionAttached ==
    [][cleanup_counter' # cleanup_counter =>
          /\ attached'.id \in DOMAIN sessions =>
                now - sessions[attached'.id].updated_at <= session_lifetime
          /\ attached'.presented \notin DOMAIN sessions => attached'.id # attached'.presented]_vars


====
